---- MODULE Spec2Model ----
(***************************************************************************)
(* Model of the document knowledge and question-answering engine of the    *)
(* tender CRM: the knowledge-base builder and its cache                    *)
(* (tenders/services/sharepoint_knowledge_service.py), the RFI generator   *)
(* (tenders/services/rfi_generator.py), the field mapper                   *)
(* (tenders/services/enhanced_mapper.py), the answer generator             *)
(* (tenders/services/enhanced_ai_responder.py) and the categorizer and     *)
(* confidence heuristic of tenders/services/enhanced_ask_ai_system.py.     *)
(*                                                                         *)
(* Python strings that the code slices, strips, splits or searches are     *)
(* modelled as sequences of one-character strings, so that len, strip,     *)
(* split, lower, slicing and the substring test are computed and not       *)
(* assumed.                                                                *)
(***************************************************************************)
EXTENDS Integers, Sequences, FiniteSets, TLC

VARIABLES
    now,            \* wall clock in seconds (time.time())
    folder,         \* the remote folder of the project: [available, docs]
    cache,          \* django cache: key -> NoEntry or [value, expires]
    pc,             \* per worker: position inside build_project_knowledge_base
    call,           \* per worker: arguments of the call in progress
    documents,      \* per worker: the local `documents` listing
    idx,            \* per worker: position of the document loop (1-based)
    kb,             \* per worker: the local `knowledge_base` under construction
    io,             \* per worker: remote calls made by the call in progress
    result,         \* per worker: outcome of the worker's latest finished call
    laterStarted,   \* per worker: workers whose build started while this one ran
    rfi_items,      \* RFIItem table: tender analysis -> its rows, in creation order
    rfi_result,     \* what the latest RFI call returned
    analysis_results,   \* the raw analysis result handed to the field mapper
    mapping,        \* what the field mapper made of it
    asking,         \* the answer call in progress
    answered,       \* the latest finished answer call and what it returned
    conversations,  \* AIConversation/AIQuestion tables: project -> its conversation
    categorized,    \* the latest two calls of the document categorizers
    scored,         \* the latest completion given a confidence, and the confidence
    prepared,       \* the latest prompt context assembled for a question
    embedded        \* the document content of the latest prompt of the question answerer

buildVars == <<now, folder, cache, pc, call, documents, idx, kb, io, result, laterStarted>>
rfiVars == <<rfi_items, rfi_result>>
mapVars == <<analysis_results, mapping>>
answerVars == <<asking, answered, conversations>>
enhancedVars == <<categorized, scored>>
contextVars == <<prepared, embedded>>
vars == <<buildVars, rfiVars, mapVars, answerVars, enhancedVars, contextVars>>
nonBuildVars == <<rfiVars, mapVars, answerVars, enhancedVars, contextVars>>
nonRfiVars == <<buildVars, mapVars, answerVars, enhancedVars, contextVars>>
nonMapVars == <<buildVars, rfiVars, answerVars, enhancedVars, contextVars>>
nonEnhancedVars == <<buildVars, rfiVars, mapVars, answerVars, contextVars>>
nonContextVars == <<buildVars, rfiVars, mapVars, answerVars, enhancedVars>>

-----------------------------------------------------------------------------
(* Bounds of the model *)

MaxDocs == 2            \* documents a folder holds in the sequential model
MaxConcDocs == 2        \* documents a folder holds in the concurrent model
TickSeconds == 1800     \* seconds the clock advances in one step
MaxClock == 5400        \* the clock stops advancing here
MaxQuestions == 1       \* questions stored in the conversation of a project
MaxAnswerDocs == 2      \* documents a folder holds while questions are answered
MaxStoredAnswers == 2   \* answers stored in a conversation while the store is observed
MaxContextDocs == 10    \* long documents a folder holds while prompt contexts are assembled
LongTextLength == 3200  \* characters of filler in the text of a long document

-----------------------------------------------------------------------------
(* Python string and dict primitives *)

\* An optional value is a sequence of length 0 or 1
None == <<>>                    \* Python's None
Missing == <<>>                 \* a key the dict does not hold
Some(x) == <<x>>

LowerTable ==
    ("A" :> "a") @@ ("B" :> "b") @@ ("C" :> "c") @@ ("D" :> "d") @@ ("E" :> "e") @@ ("F" :> "f") @@ ("G" :> "g") @@ ("H" :> "h") @@ ("I" :> "i") @@ ("J" :> "j") @@ ("K" :> "k") @@ ("L" :> "l") @@ ("M" :> "m") @@ ("N" :> "n") @@ ("O" :> "o") @@ ("P" :> "p") @@ ("Q" :> "q") @@ ("R" :> "r") @@ ("S" :> "s") @@ ("T" :> "t") @@ ("U" :> "u") @@ ("V" :> "v") @@ ("W" :> "w") @@ ("X" :> "x") @@ ("Y" :> "y") @@ ("Z" :> "z")

\* str.lower()
Lower(s) == [i \in 1..Len(s) |-> IF s[i] \in DOMAIN LowerTable THEN LowerTable[s[i]] ELSE s[i]]

IsSpace(c) == c \in {" ", "\t", "\n"}

SetMin(S) == CHOOSE x \in S : \A y \in S : x <= y
SetMax(S) == CHOOSE x \in S : \A y \in S : x >= y

\* str.strip()
Strip(s) ==
    LET solid == {i \in 1..Len(s) : ~IsSpace(s[i])}
    IN  IF solid = {} THEN <<>>
        ELSE SubSeq(s, CHOOSE i \in solid : \A j \in 1..(i - 1) : IsSpace(s[j]),
                       CHOOSE i \in solid : \A j \in (i + 1)..Len(s) : IsSpace(s[j]))

\* min(a, b) and sum(numbers)
Min(a, b) == IF a < b THEN a ELSE b

RECURSIVE SumOf(_)
SumOf(numbers) == IF numbers = <<>> THEN 0 ELSE Head(numbers) + SumOf(Tail(numbers))

\* s[:n]
Take(s, n) == SubSeq(s, 1, IF n < Len(s) THEN n ELSE Len(s))

\* t in s (substring test)
Contains(s, t) ==
    \E i \in 1..(Len(s) - Len(t) + 1) : SubSeq(s, i, i + Len(t) - 1) = t

\* any(term in s for term in terms)
AnyTermIn(terms, s) == \E k \in 1..Len(terms) : Contains(s, terms[k])

\* str.split(): the maximal runs of non-space characters, in order
RECURSIVE SplitFrom(_, _)
SplitFrom(s, i) ==
    IF \A j \in i..Len(s) : IsSpace(s[j]) THEN <<>>
    ELSE LET start == CHOOSE j \in i..Len(s) :
                        ~IsSpace(s[j]) /\ \A k \in i..(j - 1) : IsSpace(s[k])
             stop == CHOOSE j \in (start + 1)..(Len(s) + 1) :
                        /\ j = Len(s) + 1 \/ IsSpace(s[j])
                        /\ \A k \in start..(j - 1) : ~IsSpace(s[k])
         IN  <<SubSeq(s, start, stop - 1)>> \o SplitFrom(s, stop)

Split(s) == SplitFrom(s, 1)

\* s.split(sep)[-1] for a one-character separator
LastSegment(s, sep) ==
    LET at == {i \in 1..Len(s) : s[i] = sep}
    IN  IF at = {} THEN s ELSE SubSeq(s, SetMax(at) + 1, Len(s))

\* dict.get(key, default) on a field that may be Missing
DictGet(v, default) == IF v = Missing THEN default ELSE v[1]

EmptyDict == <<>>

\* d[key] = value
DictPut(d, key, value) ==
    [k \in (DOMAIN d) \cup {key} |-> IF k = key THEN value ELSE d[k]]

\* d.get(key, default)
DictLookup(d, key, default) == IF key \in DOMAIN d THEN d[key] ELSE default

-----------------------------------------------------------------------------
(* Documents of the remote folder *)

NameContract ==
    <<"C","o","n","t","r","a","c","t",".","p","d","f">>
NameSpec ==
    <<"s","p","e","c",".","d","o","c","x">>
NamePlan ==
    <<"s","i","t","e"," ","p","l","a","n",".","d","w","g">>
NameSchedule ==
    <<"s","c","h","e","d","u","l","e",".","x","l","s","x">>
NameProgramme ==
    <<"p","r","o","g","r","a","m","m","e",".","d","o","c","x">>
NameUnknown ==
    <<"U","n","k","n","o","w","n">>
MimePdf ==
    <<"a","p","p","l","i","c","a","t","i","o","n","/","p","d","f">>
MimeWord ==
    <<"a","p","p","l","i","c","a","t","i","o","n","/","m","s","w","o","r","d">>
MimeOctet ==
    <<"a","p","p","l","i","c","a","t","i","o","n","/","o","c","t","e","t","-","s","t","r","e","a","m">>
MimeUnknown ==
    <<"u","n","k","n","o","w","n">>

\* 75 characters; "for", "the", "due", "and" have three letters, "days" four,
\* and "programme:" ends in a colon
TextContract ==
    <<"c","o","n","t","r","a","c","t"," ","c","o","n","d","i","t","i","o","n","s"," ","f","o","r"," ","t","h","e"," ","p","r","o","g","r","a","m","m","e",":"," ","p","a","y","m","e","n","t"," ","d","u","e"," ","i","n"," ","3","0"," ","d","a","y","s"," ","a","n","d"," ","r","e","t","e","n","t","i","o","n">>
\* 50 characters
TextSpec ==
    <<"s","p","e","c","i","f","i","c","a","t","i","o","n"," ","p","r","o","g","r","a","m","m","e"," ","d","r","a","w","i","n","g","s"," ","s","c","h","e","d","u","l","e"," ","h","o","a","r","d","i","n","g">>
\* 52 characters, 51 once stripped
TextProgramme ==
    <<"s","p","e","c","i","f","i","c","a","t","i","o","n"," ","p","r","o","g","r","a","m","m","e"," ","d","r","a","w","i","n","g","s"," ","s","c","h","e","d","u","l","e"," ","h","o","a","r","d","i","n","g","s","\n">>

\* One entry of the folder listing: {name, path, download_url, mime_type}
DocContract  == [name |-> Some(NameContract),  path |-> Some("Tender/Contract.pdf"),   download_url |-> Some("url-contract"),  mime_type |-> Some(MimePdf)]
DocSpec      == [name |-> Some(NameSpec),      path |-> Some("Tender/spec.docx"),      download_url |-> Some("url-spec"),      mime_type |-> Missing]
DocPlan      == [name |-> Some(NamePlan),      path |-> Missing,                 download_url |-> Some("url-plan"),      mime_type |-> Some(MimeOctet)]
DocSchedule  == [name |-> Some(NameSchedule),  path |-> Some("Tender/schedule.xlsx"),  download_url |-> Some("url-schedule"),  mime_type |-> Some(MimeOctet)]
DocProgramme == [name |-> Some(NameProgramme), path |-> Some("Tender/programme.docx"), download_url |-> Some("url-programme"), mime_type |-> Some(MimeWord)]

DocPool == {DocContract, DocSpec, DocPlan, DocSchedule, DocProgramme}
ConcPool == {DocContract, DocProgramme}

\* A folder holding 51 revisions of the programme, led by a drawing that times out
BulkListing == [i \in 1..51 |-> IF i = 1 THEN DocPlan ELSE DocProgramme]

\* A folder of long documents: contract conditions, plans and cost plans in
\* turn, each revision under its own name; the first three are about drawings
LongStems == <<<<"c","o","n","t","r","a","c","t">>, <<"p","l","a","n">>, <<"c","o","s","t">>>>
LongExtensions == <<<<".","d","o","c","x">>, <<".","d","w","g">>, <<".","x","l","s","x">>>>
RevisionLetters == <<"a","b","c","d","e","f","g","h","i","j","k","l","m","n","o","p","q","r","s","t","u","v","w","x","y","z">>
LongName(i) ==
    LongStems[((i - 1) % 3) + 1] \o <<" ", RevisionLetters[i]>> \o LongExtensions[((i - 1) % 3) + 1]
LongUrl(i) == "url-long-" \o ToString(i)
LongDocText(i) ==
        ((IF i <= 3 THEN <<"d","r","a","w","i","n","g","s"," ">> ELSE <<"m","i","n","u","t","e","s"," ">>) \o [k \in 1..LongTextLength |-> "x"])
LongDoc(i) ==
    [name |-> Some(LongName(i)), path |-> Missing, download_url |-> Some(LongUrl(i)),
     mime_type |-> Some(MimeOctet)]
LongListing(n) == [i \in 1..n |-> LongDoc(i)]

\* Bytes as the folder store holds them, by the text they decode to
Bytes(text) == [text |-> text]

\* OptimizedSharePointService.download_document_content: the bytes, None when
\* the store has no content for the reference, or an exception on a timeout
DownloadDocumentContent(url) ==
    CASE url = "url-contract"  -> [raised |-> FALSE, content |-> Some(Bytes(TextContract))]
      [] url = "url-spec"      -> [raised |-> FALSE, content |-> Some(Bytes(TextSpec))]
      [] url = "url-programme" -> [raised |-> FALSE, content |-> Some(Bytes(TextProgramme))]
      [] url = "url-schedule"  -> [raised |-> FALSE, content |-> None]
      [] \E i \in 1..MaxContextDocs : url = LongUrl(i)
                               -> [raised |-> FALSE,
                                   content |-> Some(Bytes(LongDocText(CHOOSE i \in 1..MaxContextDocs : url = LongUrl(i))))]
      [] OTHER                 -> [raised |-> TRUE,  content |-> None]

\* DocumentParser.extract_text: the plain text of the bytes, never an exception
ExtractText(content, mime_type, filename) == content.text

\* OptimizedSharePointService.get_folder_documents_recursive
GetFolderDocumentsRecursive(f) ==
    IF f.available THEN [raised |-> FALSE, documents |-> f.docs]
                   ELSE [raised |-> TRUE,  documents |-> <<>>]

-----------------------------------------------------------------------------
(* SharePointKnowledgeService *)

Workers == {"w1", "w2"}
Projects == {"P1"}

ProjectRecord(p) ==
    [id |-> p, name |-> <<"D","e","p","o","t"," ","r","e","f","i","t">>, location |-> "Leeds", reference |-> "TK-001",
     sharepoint_folder_url |-> "https://sharepoint/sites/tenders/P1"]

CacheTimeout == 3600        \* KNOWLEDGE_CACHE_TIMEOUT default
DocumentLimit == 50         \* documents[:50]
MinTextLength == 50         \* len(text.strip()) > 50
ContentLimit == 8000        \* text[:8000]
MinWordLength == 3          \* len(word) > 3

NoEntry == <<>>

KnowledgeKey(p) == <<"project_knowledge", p>>
CacheKeys == {KnowledgeKey(p) : p \in Projects}

\* Mutant: the lookup uses a key that is never written
CacheGetOtherKey(c, key, t) == None

\* cache.get(key): the value while the entry has not expired, else None
CacheGet(c, key, t) ==
    IF c[key] # NoEntry /\ t < c[key][1].expires THEN Some(c[key][1].value) ELSE None

\* cache.set(key, value, timeout)
CacheSet(c, key, value, timeout, t) ==
    [c EXCEPT ![key] = Some([value |-> value, expires |-> t + timeout])]

CategoryTerms == <<
  [category |-> "drawings", terms |-> <<<<"d","r","a","w","i","n","g">>, <<"p","l","a","n">>, <<"d","w","g">>, <<"p","d","f">>>>],
  [category |-> "specifications", terms |-> <<<<"s","p","e","c">>, <<"s","p","e","c","i","f","i","c","a","t","i","o","n">>, <<"t","e","c","h","n","i","c","a","l">>>>],
  [category |-> "contracts", terms |-> <<<<"c","o","n","t","r","a","c","t">>, <<"t","e","r","m","s">>, <<"c","o","n","d","i","t","i","o","n","s">>>>],
  [category |-> "schedules", terms |-> <<<<"s","c","h","e","d","u","l","e">>, <<"p","r","o","g","r","a","m","m","e">>, <<"t","i","m","e","l","i","n","e">>>>],
  [category |-> "commercial", terms |-> <<<<"c","o","s","t">>, <<"b","u","d","g","e","t">>, <<"p","r","i","c","e">>, <<"b","i","l","l">>>>],
  [category |-> "health_safety", terms |-> <<<<"h","e","a","l","t","h">>, <<"s","a","f","e","t","y">>, <<"r","i","s","k">>>>] >>

\* _categorize_document(doc_name): the first branch of the if/elif chain that matches
CategorizeDocument(doc_name) ==
    LET doc_name_lower == Lower(doc_name)
        hits == {k \in 1..Len(CategoryTerms) : AnyTermIn(CategoryTerms[k].terms, doc_name_lower)}
    IN  IF hits = {} THEN "general" ELSE CategoryTerms[SetMin(hits)].category

\* Mutant: words of three characters are indexed as well
RECURSIVE IndexWordsFromThree(_, _, _)
IndexWordsFromThree(search_index, doc_name, words) ==
    IF words = <<>> THEN search_index
    ELSE LET word == Head(words)
             listed == DictLookup(search_index, word, <<>>)
             next == IF Len(word) >= MinWordLength
                     THEN DictPut(search_index, word,
                                  IF \E k \in 1..Len(listed) : listed[k] = doc_name
                                  THEN listed ELSE Append(listed, doc_name))
                     ELSE search_index
         IN  IndexWordsFromThree(next, doc_name, Tail(words))

\* _add_to_search_index(search_index, doc_name, content)
RECURSIVE IndexWords(_, _, _)
IndexWords(search_index, doc_name, words) ==
    IF words = <<>> THEN search_index
    ELSE LET word == Head(words)
             listed == DictLookup(search_index, word, <<>>)
             next == IF Len(word) > MinWordLength
                     THEN DictPut(search_index, word,
                                  IF \E k \in 1..Len(listed) : listed[k] = doc_name
                                  THEN listed ELSE Append(listed, doc_name))
                     ELSE search_index
         IN  IndexWords(next, doc_name, Tail(words))

AddToSearchIndex(search_index, doc_name, content) ==
    IndexWords(search_index, doc_name, Split(Lower(content)))

\* The knowledge_base literal of lines 41-59
NewKnowledgeBase(p, docs) ==
    [project_info |-> [name |-> ProjectRecord(p).name,
                       location |-> ProjectRecord(p).location,
                       reference |-> ProjectRecord(p).reference,
                       sharepoint_url |-> ProjectRecord(p).sharepoint_folder_url],
     documents_by_category |-> EmptyDict,
     document_contents |-> EmptyDict,
     document_metadata |-> EmptyDict,
     search_index |-> EmptyDict,
     processing_summary |-> [total_documents |-> Len(docs),
                             processed_successfully |-> 0,
                             processing_errors |-> 0,
                             total_content_length |-> 0,
                             document_types |-> EmptyDict]]

\* Mutant: the except branch swallows the error without counting it
CountProcessingErrorDropped(k) == k

\* The except branch of the document loop (lines 104-106)
CountProcessingError(k) ==
    [k EXCEPT !.processing_summary.processing_errors = @ + 1]

\* The accepting branch of the document loop (lines 78-102)
AcceptDocument(k, doc, doc_name, doc_category, text) ==
    LET doc_type == LastSegment(DictGet(doc.mime_type, MimeUnknown), "/")
        entry == [name |-> doc_name,
                  content |-> Take(text, ContentLimit),
                  path |-> DictGet(doc.path, ""),
                  size |-> Len(text),
                  type |-> DictGet(doc.mime_type, <<>>)]
    IN  [k EXCEPT
            !.documents_by_category =
                DictPut(@, doc_category, Append(DictLookup(@, doc_category, <<>>), entry)),
            !.document_contents = DictPut(@, doc_name, text),
            !.search_index = AddToSearchIndex(@, doc_name, text),
            !.processing_summary.processed_successfully = @ + 1,
            !.processing_summary.total_content_length = @ + Len(text),
            !.processing_summary.document_types =
                DictPut(@, doc_type, DictLookup(@, doc_type, 0) + 1)]

\* Whether the extracted text is kept (line 77)
TextAccepted(text) == text # <<>> /\ Len(Strip(text)) > MinTextLength

\* One pass of the document loop body (lines 63-106)
ProcessDocument(k, doc) ==
    LET doc_name == DictGet(doc.name, NameUnknown)
        doc_category == CategorizeDocument(doc_name)
    IN  IF doc.download_url = Missing THEN CountProcessingError(k)
        ELSE LET got == DownloadDocumentContent(doc.download_url[1])
             IN  IF got.raised THEN CountProcessingError(k)
                 ELSE IF got.content = None THEN k
                 ELSE LET text == ExtractText(got.content[1],
                                              DictGet(doc.mime_type, MimeOctet), doc_name)
                      IN  IF TextAccepted(text)
                          THEN AcceptDocument(k, doc, doc_name, doc_category, text)
                          ELSE k

\* documents[:50]
ProcessedSlice(docs) == Take(docs, DocumentLimit)

NoCall == [project |-> "", force_refresh |-> FALSE]
NoIO == [listings |-> 0, downloads |-> 0]
NoResult == [status |-> "none", value |-> None, cached |-> FALSE, error |-> "",
             call |-> NoCall, io |-> NoIO]

Returned(c, value, cached, ioDone) ==
    [status |-> "returned", value |-> Some(value), cached |-> cached, error |-> "",
     call |-> c, io |-> ioDone]
Raised(c, error, ioDone) ==
    [status |-> "raised", value |-> None, cached |-> FALSE, error |-> error,
     call |-> c, io |-> ioDone]

InFlight(w) == pc[w] # "idle"

\* Bookkeeping of the order in which overlapping builds started
NoteStart(w) ==
    [v \in Workers |->
        IF v = w THEN {}
        ELSE IF InFlight(v) THEN laterStarted[v] \cup {w}
        ELSE laterStarted[v] \ {w}]

\* Lines 19-29: the cache lookup
BuildStartCall(w, p, force_refresh) ==
    /\ pc[w] = "idle"
    /\ LET c == [project |-> p, force_refresh |-> force_refresh]
           cached_knowledge == IF force_refresh THEN None
                               ELSE CacheGet(cache, KnowledgeKey(p), now)
       IN  IF cached_knowledge # None
           THEN /\ result' = [result EXCEPT ![w] = Returned(c, cached_knowledge[1], TRUE, NoIO)]
                /\ UNCHANGED <<pc, call, io, laterStarted>>
           ELSE /\ pc' = [pc EXCEPT ![w] = "listing"]
                /\ call' = [call EXCEPT ![w] = c]
                /\ io' = [io EXCEPT ![w] = NoIO]
                /\ result' = [result EXCEPT ![w] = NoResult]
                /\ laterStarted' = NoteStart(w)
    /\ UNCHANGED <<now, folder, cache, documents, idx, kb>>

\* A call of build_project_knowledge_base by a view
BuildStart(w, p, force_refresh) ==
    /\ BuildStartCall(w, p, force_refresh)
    /\ UNCHANGED nonBuildVars

\* Lines 31-59: the folder listing and the empty knowledge base
BuildList(w) ==
    /\ pc[w] = "listing"
    /\ LET listed == GetFolderDocumentsRecursive(folder)
           ioDone == [io[w] EXCEPT !.listings = @ + 1]
       IN  IF listed.raised \/ listed.documents = <<>>
           THEN /\ result' = [result EXCEPT ![w] =
                        Raised(call[w],
                               IF listed.raised THEN "folder listing failed"
                               ELSE "No documents found in SharePoint folder",
                               ioDone)]
                /\ pc' = [pc EXCEPT ![w] = "idle"]
                /\ call' = [call EXCEPT ![w] = NoCall]
                /\ io' = [io EXCEPT ![w] = NoIO]
                /\ UNCHANGED <<documents, idx, kb>>
           ELSE /\ documents' = [documents EXCEPT ![w] = listed.documents]
                /\ kb' = [kb EXCEPT ![w] = Some(NewKnowledgeBase(call[w].project, listed.documents))]
                /\ idx' = [idx EXCEPT ![w] = 1]
                /\ io' = [io EXCEPT ![w] = ioDone]
                /\ pc' = [pc EXCEPT ![w] = "processing"]
                /\ UNCHANGED <<call, result>>
    /\ UNCHANGED <<now, folder, cache, laterStarted>>
    /\ UNCHANGED nonBuildVars

\* Lines 62-106: one iteration of the document loop
BuildProcessDocument(w) ==
    /\ pc[w] = "processing"
    /\ idx[w] <= Len(ProcessedSlice(documents[w]))
    /\ LET doc == ProcessedSlice(documents[w])[idx[w]]
       IN  /\ kb' = [kb EXCEPT ![w] = Some(ProcessDocument(@[1], doc))]
           /\ io' = [io EXCEPT ![w].downloads =
                        IF doc.download_url = Missing THEN @ ELSE @ + 1]
    /\ idx' = [idx EXCEPT ![w] = @ + 1]
    /\ UNCHANGED <<now, folder, cache, pc, call, documents, result, laterStarted>>
    /\ UNCHANGED nonBuildVars

\* Lines 108-112: the cache write and the return
BuildCacheSet(w) ==
    /\ pc[w] = "processing"
    /\ idx[w] > Len(ProcessedSlice(documents[w]))
    /\ cache' = CacheSet(cache, KnowledgeKey(call[w].project), kb[w][1], CacheTimeout, now)
    /\ result' = [result EXCEPT ![w] = Returned(call[w], kb[w][1], FALSE, io[w])]
    /\ pc' = [pc EXCEPT ![w] = "idle"]
    /\ call' = [call EXCEPT ![w] = NoCall]
    /\ documents' = [documents EXCEPT ![w] = <<>>]
    /\ idx' = [idx EXCEPT ![w] = 0]
    /\ kb' = [kb EXCEPT ![w] = None]
    /\ io' = [io EXCEPT ![w] = NoIO]
    /\ UNCHANGED <<now, folder, laterStarted>>
    /\ UNCHANGED nonBuildVars

-----------------------------------------------------------------------------
(* Environment: the clock and the remote folder *)

Tick ==
    /\ now + TickSeconds <= MaxClock
    /\ now' = now + TickSeconds
    /\ UNCHANGED <<folder, cache, pc, call, documents, idx, kb, io, result, laterStarted>>
    /\ UNCHANGED nonBuildVars

\* A document is uploaded to the folder
DocAdded(pool, limit) ==
    /\ Len(folder.docs) < limit
    /\ \E d \in pool : folder' = [folder EXCEPT !.docs = Append(@, d)]
    /\ UNCHANGED <<now, cache, pc, call, documents, idx, kb, io, result, laterStarted>>
    /\ UNCHANGED nonBuildVars

\* The folder store becomes unreachable, or reachable again
FolderToggled ==
    /\ folder' = [folder EXCEPT !.available = ~@]
    /\ UNCHANGED <<now, cache, pc, call, documents, idx, kb, io, result, laterStarted>>
    /\ UNCHANGED nonBuildVars

-----------------------------------------------------------------------------
(* IntelligentRFIGenerator *)

StrTechnical == <<"T","E","C","H","N","I","C","A","L">>
StrCommercial == <<"C","O","M","M","E","R","C","I","A","L">>
StrProgram == <<"P","R","O","G","R","A","M">>
StrProgramme == <<"P","R","O","G","R","A","M","M","E">>
StrSpecification == <<"S","P","E","C","I","F","I","C","A","T","I","O","N">>
StrDrawing == <<"D","R","A","W","I","N","G">>
StrHealthSafety == <<"H","E","A","L","T","H","_","S","A","F","E","T","Y">>
StrEnvironmental == <<"E","N","V","I","R","O","N","M","E","N","T","A","L">>
StrQuality == <<"Q","U","A","L","I","T","Y">>
StrScope == <<"S","C","O","P","E">>
StrAccess == <<"A","C","C","E","S","S">>
StrCoordination == <<"C","O","O","R","D","I","N","A","T","I","O","N">>
StrExclusions == <<"E","X","C","L","U","S","I","O","N","S">>
StrCritical == <<"C","R","I","T","I","C","A","L">>
StrHigh == <<"H","I","G","H">>
StrMedium == <<"M","E","D","I","U","M">>
StrLow == <<"L","O","W">>
StrProgramMixed == <<"P","r","o","g","r","a","m">>
StrPricing == <<"P","R","I","C","I","N","G">>
StrUrgent == <<"u","r","g","e","n","t">>
StrLowLower == <<"l","o","w">>
StrLiveEnvironment == <<"l","i","v","e"," ","e","n","v","i","r","o","n","m","e","n","t">>
OverviewLive == <<"O","f","f","i","c","e"," ","r","e","f","i","t"," ","i","n"," ","a"," ","L","i","v","e"," ","E","n","v","i","r","o","n","m","e","n","t">>
OverviewNew == <<"N","e","w"," ","b","u","i","l","d"," ","w","a","r","e","h","o","u","s","e">>

UpperTable ==
    [c \in {LowerTable[u] : u \in DOMAIN LowerTable} |->
        CHOOSE u \in DOMAIN LowerTable : LowerTable[u] = c]

\* str.upper()
Upper(s) == [i \in 1..Len(s) |-> IF s[i] \in DOMAIN UpperTable THEN UpperTable[s[i]] ELSE s[i]]

\* The tender analyses of the record store
Analyses == {"TA1", "TA2"}
AnalysisRecord(a) ==
    IF a = "TA1"
    THEN [project |-> "P1", project_overview |-> OverviewLive]
    ELSE [project |-> "P2", project_overview |-> OverviewNew]

\* _prepare_analysis_context, as far as the generator reads it back
PrepareAnalysisContext(a) ==
    [project_name |-> AnalysisRecord(a).project,
     project_overview |-> AnalysisRecord(a).project_overview]

\* Objects of a completion's JSON array, as json.loads yields them
RawScope     == [category |-> Some(StrScope),        priority |-> Some(StrHigh),     question |-> Some("Which areas are excluded?"), context |-> Some("Scope drawing is unclear")]
RawProgram   == [category |-> Some(StrProgramMixed), priority |-> Some(StrUrgent),   question |-> Some("When does the work start?"), context |-> Missing]
RawPricing   == [category |-> Some(StrPricing),      priority |-> Some(StrLowLower), question |-> Some("Which areas are excluded?"), context |-> Missing]
RawNoQuestion == [category |-> Some(StrAccess),      priority |-> Missing,           question |-> Some(""),                          context |-> Missing]

RawPool == {RawScope, RawProgram, RawPricing, RawNoQuestion}

\* Sequences over S of length at most n
SeqsUpTo(S, n) == UNION {[1..k -> S] : k \in 0..n}

\* _validate_rfi_data
ValidateRfiData(rfi) ==
    /\ rfi.category # Missing /\ rfi.category[1] # <<>>
    /\ rfi.priority # Missing /\ rfi.priority[1] # <<>>
    /\ rfi.question # Missing /\ rfi.question[1] # ""

CategoryMapping ==
    (StrTechnical :> StrTechnical) @@ (StrCommercial :> StrCommercial) @@
    (StrProgram :> StrProgramme) @@ (StrProgramme :> StrProgramme) @@
    (StrSpecification :> StrSpecification) @@ (StrDrawing :> StrDrawing) @@
    (StrHealthSafety :> StrHealthSafety) @@ (StrEnvironmental :> StrEnvironmental) @@
    (StrQuality :> StrQuality) @@ (StrScope :> StrScope) @@ (StrAccess :> StrAccess) @@
    (StrCoordination :> StrCoordination) @@ (StrExclusions :> StrExclusions)

PriorityMapping ==
    (StrCritical :> StrCritical) @@ (StrHigh :> StrHigh) @@
    (StrMedium :> StrMedium) @@ (StrLow :> StrLow)

\* dict.setdefault(key, default) on a field that may be Missing
SetDefault(v, default) == IF v = Missing THEN Some(default) ELSE v

\* Mutant: the category and the priority are stored as the completion gave them
CleanRfiDataUnmapped(rfi) ==
    [category |-> rfi.category,
     priority |-> rfi.priority,
     question |-> rfi.question,
     context |-> SetDefault(rfi.context, "Clarification required for accurate estimation"),
     document_reference |-> Some("General"),
     pricing_impact |-> Some("MEDIUM"),
     risk_if_unresolved |-> Some("May affect pricing accuracy")]

\* _clean_rfi_data
CleanRfiData(rfi) ==
    [category |-> Some(DictLookup(CategoryMapping, Upper(DictGet(rfi.category, <<>>)), StrTechnical)),
     priority |-> Some(DictLookup(PriorityMapping, Upper(DictGet(rfi.priority, <<>>)), StrMedium)),
     question |-> rfi.question,
     context |-> SetDefault(rfi.context, "Clarification required for accurate estimation"),
     document_reference |-> Some("General"),
     pricing_impact |-> Some("MEDIUM"),
     risk_if_unresolved |-> Some("May affect pricing accuracy")]

\* The loop of lines 178-181
RECURSIVE CleanedRfis(_)
CleanedRfis(rfis) ==
    IF rfis = <<>> THEN <<>>
    ELSE (IF ValidateRfiData(Head(rfis)) THEN <<CleanRfiData(Head(rfis))>> ELSE <<>>)
         \o CleanedRfis(Tail(rfis))

\* A completion of the generative model, by what the parser finds in it:
\*   "call_failed"   _call_claude_with_retry raised
\*   "json_array"    the text from the first '[' to the last ']' is a JSON array
\*   "no_array"      the text holds no '[' ... ']'
\*   "invalid_json"  the bracketed text is not valid JSON
Completions(n) ==
    {[kind |-> k, items |-> <<>>] : k \in {"call_failed", "no_array", "invalid_json"}}
    \cup {[kind |-> "json_array", items |-> items] : items \in SeqsUpTo(RawPool, n)}

\* _parse_claude_rfi_response. The class defines no _parse_text_rfi_response,
\* so both text-parse calls (lines 187 and 191) raise AttributeError.
ParseClaudeRfiResponse(response) ==
    IF response.kind = "json_array"
    THEN [raised |-> FALSE, rfis |-> CleanedRfis(response.items)]
    ELSE [raised |-> TRUE, rfis |-> <<>>]

FallbackItem(category, priority, question, context, pricing_impact, risk) ==
    [category |-> Some(category), priority |-> Some(priority), question |-> Some(question),
     context |-> Some(context), document_reference |-> Missing,
     pricing_impact |-> Some(pricing_impact), risk_if_unresolved |-> Some(risk)]

StandardRfis == <<
    FallbackItem(StrProgramme, StrCritical,
        "What is the confirmed start on site date and required completion date?",
        "Essential for programme planning and resource allocation", "HIGH",
        "Cannot price time-related costs or assess programme risk"),
    FallbackItem(StrTechnical, StrHigh,
        "Please provide complete technical specifications for all major building elements",
        "Current specifications appear incomplete for accurate material pricing", "HIGH",
        "May require provisional sums for unspecified elements"),
    FallbackItem(StrScope, StrCritical,
        "Please clarify the exact scope boundaries and any exclusions from contractor works",
        "Scope boundaries are unclear which could lead to disputes", "HIGH",
        "Risk of pricing gaps or overlaps with other contractors"),
    FallbackItem(StrCommercial, StrHigh,
        "Please confirm payment terms, retention percentages and milestone definitions",
        "Commercial terms affect cash flow and pricing strategy", "MEDIUM",
        "Cannot assess commercial risk or price accordingly"),
    FallbackItem(StrAccess, StrHigh,
        "Please provide site access arrangements, working hours and any restrictions",
        "Access limitations affect logistics and programme costs", "MEDIUM",
        "May underestimate logistics and programme costs") >>

CoordinationRfi ==
    FallbackItem(StrCoordination, StrHigh,
        "Please detail coordination requirements with ongoing operations and other contractors",
        "Live environment requires careful coordination planning", "HIGH",
        "Cannot price coordination and protection measures")

FallbackLimit == 12         \* standard_rfis[:12]

\* Mutant: the coordination item is never added
GenerateRfisWithFallbackStandardOnly(context) == Take(StandardRfis, FallbackLimit)

\* _generate_rfis_with_fallback
GenerateRfisWithFallback(context) ==
    Take(IF Contains(Lower(context.project_overview), StrLiveEnvironment)
         THEN Append(StandardRfis, CoordinationRfi) ELSE StandardRfis,
         FallbackLimit)

\* _generate_rfis_with_claude
GenerateRfisWithClaude(context, response) ==
    IF response.kind = "call_failed" \/ ParseClaudeRfiResponse(response).raised
    THEN GenerateRfisWithFallback(context)
    ELSE ParseClaudeRfiResponse(response).rfis

\* _analyze_and_generate_rfis
AnalyzeAndGenerateRfis(a, claude_available, response) ==
    IF claude_available THEN GenerateRfisWithClaude(PrepareAnalysisContext(a), response)
    ELSE GenerateRfisWithFallback(PrepareAnalysisContext(a))

\* One RFIItem.objects.create(...) of _create_rfi_items
NewRfiItem(a, rfi_data, created_by) ==
    [project |-> AnalysisRecord(a).project,
     tender_analysis |-> a,
     category |-> rfi_data.category[1],
     priority |-> rfi_data.priority[1],
     question |-> rfi_data.question[1],
     context |-> DictGet(rfi_data.context, ""),
     document_reference |-> DictGet(rfi_data.document_reference, ""),
     location_in_document |-> "",
     pricing_impact |-> DictGet(rfi_data.pricing_impact, "MEDIUM"),
     risk_if_unresolved |-> DictGet(rfi_data.risk_if_unresolved, ""),
     created_by |-> DictGet(created_by, "System Generated"),
     status |-> "PENDING"]

\* _create_rfi_items: a create that raises is logged and skipped; `failing`
\* holds the positions whose create raises
RECURSIVE CreateFrom(_, _, _, _, _)
CreateFrom(a, rfis, created_by, failing, i) ==
    IF i > Len(rfis) THEN <<>>
    ELSE (IF i \in failing THEN <<>> ELSE <<NewRfiItem(a, rfis[i], created_by)>>)
         \o CreateFrom(a, rfis, created_by, failing, i + 1)

CreateRfiItems(a, rfis, created_by, failing) == CreateFrom(a, rfis, created_by, failing, 1)

\* _summarize_by_category
RECURSIVE SummarizeByCategory(_)
SummarizeByCategory(items) ==
    IF items = <<>> THEN EmptyDict
    ELSE LET summary == SummarizeByCategory(SubSeq(items, 1, Len(items) - 1))
             category == items[Len(items)].category
         IN  DictPut(summary, category, DictLookup(summary, category, 0) + 1)

\* Mutant: the existence check counts the rows of another analysis
ExistingRfisOfOther(table, a) == Len(table[CHOOSE b \in Analyses : b # a])

\* RFIItem.objects.filter(tender_analysis=tender_analysis).count()
ExistingRfis(table, a) == Len(table[a])

\* The database outcomes of a batch of creates: none raises, the first raises,
\* every one raises
CreateFailures == {{}, {1}, 1..(Len(StandardRfis) + 1)}

NoRfiResult ==
    [op |-> "none", analysis |-> "", turn |-> 0, success |-> FALSE, message |-> "",
     rfi_count |-> 0, categories |-> EmptyDict, generated |-> 0]

\* generate_comprehensive_rfis: the table, the returned dict, and the number of
\* items the generation step produced (what lines 183 and 327 log)
GenerateComprehensiveRfis(table, a, created_by, claude_available, response, failing) ==
    IF ExistingRfis(table, a) > 0
    THEN [table |-> table,
          returned |-> [success |-> FALSE, message |-> "RFIs already generated for this project",
                        rfi_count |-> ExistingRfis(table, a), categories |-> EmptyDict],
          generated |-> 0]
    ELSE LET generated_rfis == AnalyzeAndGenerateRfis(a, claude_available, response)
             created_rfis == CreateRfiItems(a, generated_rfis, created_by,
                                            failing \cap (1..Len(generated_rfis)))
         IN  [table |-> [table EXCEPT ![a] = @ \o created_rfis],
              returned |-> [success |-> TRUE, message |-> "Successfully generated RFI items",
                            rfi_count |-> Len(created_rfis),
                            categories |-> SummarizeByCategory(created_rfis)],
              generated |-> Len(generated_rfis)]

\* The record of a finished call: the returned dict, the operation, and a turn
\* bit that tells successive calls apart
Finished(op, a, out) ==
    [op |-> op, analysis |-> a, turn |-> 1 - rfi_result.turn,
     success |-> out.returned.success, message |-> out.returned.message,
     rfi_count |-> out.returned.rfi_count, categories |-> out.returned.categories,
     generated |-> out.generated]

\* Who asks for the RFIs of an analysis: a named estimator, or nobody (None)
RequestUser(a) == IF a = "TA1" THEN Some("estimator") ELSE None

\* A request that calls generate_comprehensive_rfis
Generate(a, created_by, claude_available, response, failing) ==
    /\ LET out == GenerateComprehensiveRfis(rfi_items, a, created_by, claude_available,
                                            response, failing)
       IN  /\ rfi_items' = out.table
           /\ rfi_result' = Finished("generate", a, out)
    /\ UNCHANGED nonRfiVars

\* regenerate_rfis: delete the rows of the analysis, then generate
Regenerate(a, created_by, claude_available, response, failing) ==
    /\ LET deleted == [rfi_items EXCEPT ![a] = <<>>]
           out == GenerateComprehensiveRfis(deleted, a, created_by, claude_available,
                                            response, failing)
       IN  /\ rfi_items' = out.table
           /\ rfi_result' = Finished("regenerate", a, out)
    /\ UNCHANGED nonRfiVars


-----------------------------------------------------------------------------
(* EnhancedAIAnalysisMapper *)

\* Characters outside ASCII, by name
PoundSign == "pound-sign"
Bullet == "bullet"

\* A value of the parsed analysis JSON, by Python type. Lists hold strings;
\* a dict maps its keys to values of this kind.
PyNone == [type |-> "none", s |-> <<>>, n |-> 0, items |-> <<>>, d |-> <<>>]
PyStr(s) == [type |-> "str", s |-> s, n |-> 0, items |-> <<>>, d |-> <<>>]
PyInt(n) == [type |-> "int", s |-> <<>>, n |-> n, items |-> <<>>, d |-> <<>>]
PyFloat(n) == [type |-> "float", s |-> <<>>, n |-> n, items |-> <<>>, d |-> <<>>]
PyList(items) == [type |-> "list", s |-> <<>>, n |-> 0, items |-> items, d |-> <<>>]
PyDict(d) == [type |-> "dict", s |-> <<>>, n |-> 0, items |-> <<>>, d |-> d]

IsStr(v) == v.type = "str"
IsList(v) == v.type = "list"
IsDict(v) == v.type = "dict"
\* isinstance(v, (int, float))
IsNumber(v) == v.type \in {"int", "float"}

\* bool(v)
Truthy(v) ==
    CASE v.type = "none" -> FALSE
      [] v.type = "str" -> v.s # <<>>
      [] IsNumber(v) -> v.n # 0
      [] v.type = "list" -> v.items # <<>>
      [] v.type = "dict" -> DOMAIN v.d # {}

\* d.get(key) and d.get(key, default) on a dict of values
Get(d, key) == IF key \in DOMAIN d THEN d[key] ELSE PyNone
GetOr(d, key, default) == IF key \in DOMAIN d THEN d[key] ELSE default

Digits == <<"0","1","2","3","4","5","6","7","8","9">>
IsDigit(c) == \E k \in 1..Len(Digits) : Digits[k] = c
DigitValue(c) == (CHOOSE k \in 1..Len(Digits) : Digits[k] = c) - 1

\* str(n) for a natural number
RECURSIVE IntToStr(_)
IntToStr(n) ==
    IF n < 10 THEN <<Digits[n + 1]>> ELSE Append(IntToStr(n \div 10), Digits[(n % 10) + 1])

\* format(n, ","): the digits in groups of three
GroupThousands(n) ==
    LET digits == IntToStr(n)
        RECURSIVE From(_)
        From(i) ==
            IF i > Len(digits) THEN <<>>
            ELSE (IF i > 1 /\ (Len(digits) - i + 1) % 3 = 0 THEN <<",">> ELSE <<>>)
                 \o <<digits[i]>> \o From(i + 1)
    IN  From(1)

\* int(digits)
RECURSIVE ParseInt(_)
ParseInt(digits) ==
    IF digits = <<>> THEN 0
    ELSE 10 * ParseInt(SubSeq(digits, 1, Len(digits) - 1)) + DigitValue(digits[Len(digits)])

\* re.search(r'(\d+)', s): the first run of digits, None when there is none
FirstDigitRun(s) ==
    LET at == {i \in 1..Len(s) : IsDigit(s[i])}
    IN  IF at = {} THEN None
        ELSE LET first == SetMin(at)
                 ends == {j \in first..Len(s) : \A k \in first..j : IsDigit(s[k])}
             IN  Some(SubSeq(s, first, SetMax(ends)))

\* repr of a list of strings
RECURSIVE ReprItems(_)
ReprItems(items) ==
    IF items = <<>> THEN <<>>
    ELSE <<"'">> \o Head(items) \o <<"'">>
         \o (IF Len(items) > 1 THEN <<",", " ">> ELSE <<>>) \o ReprItems(Tail(items))

\* str(v) and the f-string rendering of v. The mapper never renders a dict
\* that the inputs of this model hold.
Str(v) ==
    CASE v.type = "str" -> v.s
      [] v.type = "int" -> IntToStr(v.n)
      [] v.type = "float" -> IntToStr(v.n) \o <<".", "0">>
      [] v.type = "none" -> <<"N","o","n","e">>
      [] v.type = "list" -> <<"[">> \o ReprItems(v.items) \o <<"]">>

\* sep.join(parts) for strings
RECURSIVE Join(_, _)
Join(parts, sep) ==
    IF parts = <<>> THEN <<>>
    ELSE IF Len(parts) = 1 THEN Head(parts)
    ELSE Head(parts) \o sep \o Join(Tail(parts), sep)

\* The outcome of one numbered block of the mapper: the key is assigned, the
\* key is left out of mapped_data, or the block raises
Field(v) == [raised |-> FALSE, set |-> TRUE, value |-> v]
Unset == [raised |-> FALSE, set |-> FALSE, value |-> PyNone]
Raises == [raised |-> TRUE, set |-> FALSE, value |-> PyNone]

\* if analysis_results.get(key): parts.append(analysis_results[key])
Part(r, key) == IF Truthy(Get(r, key)) THEN <<Get(r, key)>> ELSE <<>>

\* if analysis_results.get(key): parts.append(f"{label}{analysis_results[key]}")
Labelled(r, key, label) ==
    IF Truthy(Get(r, key)) THEN <<PyStr(label \o Str(Get(r, key)))>> ELSE <<>>

\* '\n\n'.join(parts) if parts else default; join raises on a part that is not a string
JoinParts(parts, default) ==
    IF parts = <<>> THEN Field(PyStr(default))
    ELSE IF \E k \in 1..Len(parts) : ~IsStr(parts[k]) THEN Raises
    ELSE Field(PyStr(Join([k \in 1..Len(parts) |-> parts[k].s], <<"\n", "\n">>)))

\* [f"{label}{item}" for item in items]
Prefixed(label, items) == [k \in 1..Len(items) |-> label \o items[k]]

KeyRequirementsLimit == 20      \* key_requirements[:20]
ContractTypeLimit == 100        \* str(...)[:100]
DefaultConfidence == 70         \* 70.0
DefaultDurationWeeks == 26      \* _safe_convert_to_int(duration, 26)

\* 1. project_overview (lines 33-50)
MapProjectOverview(r, project) ==
    JoinParts(Part(r, "project_overview")
              \o Labelled(r, "project_name", <<"P","r","o","j","e","c","t",":"," ">>)
              \o Labelled(r, "project_location", <<"L","o","c","a","t","i","o","n",":"," ">>)
              \o Labelled(r, "client_details", <<"C","l","i","e","n","t",":"," ">>)
              \o Labelled(r, "project_type", <<"T","y","p","e",":"," ">>),
              <<"A","I"," ","A","n","a","l","y","s","i","s"," ","f","o","r"," ">> \o project.name)

\* 2. scope_of_work (lines 52-63)
MapScopeOfWork(r) ==
    JoinParts(Part(r, "scope_of_work")
              \o Labelled(r, "technical_specifications", <<"T","e","c","h","n","i","c","a","l"," ","S","p","e","c","i","f","i","c","a","t","i","o","n","s",":"," ">>)
              \o Labelled(r, "coordination_requirements", <<"C","o","o","r","d","i","n","a","t","i","o","n",":"," ">>),
              <<"S","c","o","p","e"," ","t","o"," ","b","e"," ","d","e","t","e","r","m","i","n","e","d"," ","f","r","o","m"," ","d","o","c","u","m","e","n","t"," ","a","n","a","l","y","s","i","s">>)

\* extend with a list, append str() of anything else (lines 69-73, 81-86, 223-228)
ExtendOrAppend(r, key) ==
    LET v == Get(r, key)
    IN  IF ~Truthy(v) THEN <<>>
        ELSE IF IsList(v) THEN v.items
        ELSE <<Str(v)>>

LabelledItem(r, key, label) ==
    IF Truthy(Get(r, key)) THEN <<label \o Str(Get(r, key))>> ELSE <<>>

\* 3. key_requirements (lines 65-97)
MapKeyRequirements(r) ==
    LET trades == Get(r, "required_trades")
        key_requirements ==
            ExtendOrAppend(r, "key_requirements")
            \o (IF Truthy(trades) /\ IsList(trades)
                THEN Prefixed(<<"R","e","q","u","i","r","e","d"," ","t","r","a","d","e",":"," ">>, trades.items) ELSE <<>>)
            \o ExtendOrAppend(r, "compliance_requirements")
            \o LabelledItem(r, "quality_requirements", <<"Q","u","a","l","i","t","y",":"," ">>)
            \o LabelledItem(r, "safety_requirements", <<"S","a","f","e","t","y",":"," ">>)
            \o LabelledItem(r, "environmental_considerations", <<"E","n","v","i","r","o","n","m","e","n","t","a","l",":"," ">>)
    IN  Field(PyList(Take(key_requirements, KeyRequirementsLimit)))

\* 4. technical_specifications (lines 99-113)
MapTechnicalSpecifications(r) ==
    LET drawings == Get(r, "drawings_available")
        inner == Get(drawings.d, "drawings_available")
        listed(items) == <<PyStr(<<"A","v","a","i","l","a","b","l","e"," ","d","r","a","w","i","n","g","s",":"," ">> \o Join(items, <<",", " ">>))>>
    IN  JoinParts(Part(r, "technical_specifications")
                  \o (IF ~Truthy(drawings) THEN <<>>
                      ELSE IF IsList(drawings) THEN listed(drawings.items)
                      ELSE IF IsDict(drawings) /\ "drawings_available" \in DOMAIN drawings.d
                                /\ IsList(inner)
                           THEN listed(inner.items)
                      ELSE <<>>),
                  <<"T","e","c","h","n","i","c","a","l"," ","s","p","e","c","i","f","i","c","a","t","i","o","n","s"," ","t","o"," ","b","e"," ","r","e","v","i","e","w","e","d"," ","f","r","o","m"," ","d","o","c","u","m","e","n","t","s">>)

\* The heading and one bulleted line per item (lines 122-125, 161-164)
Bulleted(r, key, heading) ==
    LET v == Get(r, key)
    IN  IF Truthy(v) /\ IsList(v)
        THEN <<PyStr(heading)>>
             \o [k \in 1..Len(v.items) |-> PyStr(<<Bullet, " ">> \o v.items[k])]
        ELSE <<>>

\* 5. risk_assessment (lines 115-130)
MapRiskAssessment(r) ==
    JoinParts(Part(r, "risk_assessment")
              \o Bulleted(r, "identified_risks", <<"I","d","e","n","t","i","f","i","e","d"," ","R","i","s","k","s",":">>)
              \o Labelled(r, "site_conditions", <<"S","i","t","e"," ","C","o","n","d","i","t","i","o","n","s",":"," ">>),
              <<"R","i","s","k"," ","a","s","s","e","s","s","m","e","n","t"," ","p","e","n","d","i","n","g"," ","d","e","t","a","i","l","e","d"," ","r","e","v","i","e","w">>)

\* 6. risk_level (lines 132-145)
MapRiskLevel(r) ==
    LET risk_level == GetOr(r, "risk_level", PyStr(<<"M","E","D","I","U","M">>))
    IN  IF IsStr(risk_level)
        THEN LET upper == Upper(risk_level.s)
             IN  IF Contains(upper, <<"L","O","W">>) THEN Field(PyStr(<<"L","O","W">>))
                 ELSE IF Contains(upper, <<"H","I","G","H">>) THEN Field(PyStr(<<"H","I","G","H">>))
                 ELSE IF Contains(upper, <<"C","R","I","T","I","C","A","L">>) THEN Field(PyStr(<<"H","I","G","H">>))
                 ELSE Field(PyStr(<<"M","E","D","I","U","M">>))
        ELSE Field(PyStr(<<"M","E","D","I","U","M">>))

\* 7. timeline_analysis (lines 147-166)
MapTimelineAnalysis(r) ==
    LET duration == Get(r, "project_duration_weeks")
    IN  JoinParts(Part(r, "timeline_analysis")
                  \o (IF ~Truthy(duration) THEN <<>>
                      ELSE IF IsNumber(duration)
                           THEN <<PyStr(<<"E","s","t","i","m","a","t","e","d"," ","d","u","r","a","t","i","o","n",":"," ">> \o Str(duration) \o <<" ","w","e","e","k","s">>)>>
                      ELSE IF IsStr(duration) /\ Strip(duration.s) # <<>>
                           THEN <<PyStr(<<"D","u","r","a","t","i","o","n",":"," ">> \o duration.s)>>
                      ELSE <<>>)
                  \o Bulleted(r, "critical_milestones", <<"C","r","i","t","i","c","a","l"," ","M","i","l","e","s","t","o","n","e","s",":">>),
                  <<"T","i","m","e","l","i","n","e"," ","a","n","a","l","y","s","i","s"," ","p","e","n","d","i","n","g"," ","p","r","o","g","r","a","m","m","e"," ","r","e","v","i","e","w">>)

\* 8. budget_estimates (lines 168-180)
MapBudgetEstimates(r) ==
    LET value_range == Get(r, "estimated_value_range")
        min_val == GetOr(value_range.d, "min", PyStr(<<"T","B","D">>))
        max_val == GetOr(value_range.d, "max", PyStr(<<"T","B","D">>))
    IN  JoinParts(Part(r, "budget_estimates")
                  \o (IF Truthy(value_range) /\ IsDict(value_range)
                      THEN IF IsNumber(min_val) /\ IsNumber(max_val)
                           THEN <<PyStr(<<"E","s","t","i","m","a","t","e","d"," ","r","a","n","g","e",":"," ">> \o <<PoundSign>>
                                        \o GroupThousands(min_val.n) \o <<" ","-"," ">> \o <<PoundSign>>
                                        \o GroupThousands(max_val.n))>>
                           ELSE <<PyStr(<<"E","s","t","i","m","a","t","e","d"," ","r","a","n","g","e",":"," ">> \o Str(min_val)
                                        \o <<" ","-"," ">> \o Str(max_val))>>
                      ELSE <<>>),
                  <<"B","u","d","g","e","t"," ","e","s","t","i","m","a","t","e","s"," ","t","o"," ","b","e"," ","d","e","v","e","l","o","p","e","d"," ","f","r","o","m"," ","q","u","a","n","t","i","t","y"," ","a","n","a","l","y","s","i","s">>)

ContractFields == <<"contract_type", "payment_terms", "insurance_requirements", "liquidated_damages">>

\* dict.update(v): the keys of a dict, or the pairs of an iterable, or an error
DictUpdate(d, v) ==
    CASE IsDict(v) ->
            [raised |-> FALSE,
             d |-> [k \in (DOMAIN d) \cup (DOMAIN v.d) |->
                        IF k \in DOMAIN v.d THEN v.d[k] ELSE d[k]]]
      [] IsList(v) /\ (\A k \in 1..Len(v.items) : Len(v.items[k]) = 2) ->
            [raised |-> FALSE,
             d |-> [k \in (DOMAIN d) \cup {v.items[i][1] : i \in 1..Len(v.items)} |->
                        IF \E i \in 1..Len(v.items) : v.items[i][1] = k
                        THEN PyStr(<<v.items[SetMax({i \in 1..Len(v.items) : v.items[i][1] = k})][2]>>)
                        ELSE d[k]]]
      [] OTHER -> [raised |-> TRUE, d |-> d]

\* for field in contract_fields: if analysis_results.get(field): contract_info[field] = ...
RECURSIVE AddContractFields(_, _, _)
AddContractFields(contract_info, r, i) ==
    IF i > Len(ContractFields) THEN contract_info
    ELSE AddContractFields(IF Truthy(Get(r, ContractFields[i]))
                           THEN DictPut(contract_info, ContractFields[i], r[ContractFields[i]])
                           ELSE contract_info,
                           r, i + 1)

\* 9. contract_information (lines 182-193)
MapContractInformation(r) ==
    LET given == Get(r, "contract_information")
        updated == IF Truthy(given) THEN DictUpdate(EmptyDict, given)
                   ELSE [raised |-> FALSE, d |-> EmptyDict]
    IN  IF updated.raised THEN Raises
        ELSE Field(PyDict(AddContractFields(updated.d, r, 1)))

\* 10. analysis_confidence (lines 195-200)
MapAnalysisConfidence(r) ==
    LET confidence == GetOr(r, "analysis_confidence", PyFloat(DefaultConfidence))
    IN  IF IsNumber(confidence) THEN Field(PyFloat(confidence.n))
        ELSE Field(PyFloat(DefaultConfidence))

\* 11. estimated_project_value (lines 202-208)
MapEstimatedProjectValue(r) ==
    LET value_range == Get(r, "estimated_value_range")
        max_val == Get(value_range.d, "max")
    IN  IF Truthy(value_range) /\ IsDict(value_range) /\ IsNumber(max_val) /\ max_val.n > 0
        THEN Field(PyFloat(max_val.n))
        ELSE Unset

\* 12. contract_type (lines 210-214); .get on anything but a dict raises
MapContractType(r) ==
    LET given == GetOr(r, "contract_information", PyDict(EmptyDict))
    IN  IF ~IsDict(given) THEN Raises
        ELSE IF Truthy(Get(given.d, "contract_type"))
             THEN Field(PyStr(Take(Str(given.d["contract_type"]), ContractTypeLimit)))
        ELSE IF Truthy(Get(r, "contract_type"))
             THEN Field(PyStr(Take(Str(r["contract_type"]), ContractTypeLimit)))
        ELSE Unset

\* _safe_convert_to_int(value, default) (lines 240-251)
SafeConvertToInt(value, default) ==
    IF value.type = "none" \/ (IsStr(value) /\ value.s = <<>>) THEN default
    ELSE IF IsNumber(value) THEN PyInt(value.n)
    ELSE IF IsStr(value)
         THEN LET number_match == FirstDigitRun(value.s)
              IN  IF number_match # None THEN PyInt(ParseInt(number_match[1])) ELSE default
    ELSE default

\* 13. project_duration_weeks (lines 216-219)
MapProjectDurationWeeks(r) ==
    LET duration == Get(r, "project_duration_weeks")
    IN  IF Truthy(duration)
        THEN Field(SafeConvertToInt(duration, PyInt(DefaultDurationWeeks)))
        ELSE Unset

\* 14. key_opportunities (lines 221-230)
MapKeyOpportunities(r) == Field(PyList(ExtendOrAppend(r, "key_opportunities")))

\* The fields of the TenderAnalysis row that the mapper feeds
SchemaFields ==
    {"project_overview", "scope_of_work", "key_requirements", "technical_specifications",
     "risk_assessment", "risk_level", "timeline_analysis", "budget_estimates",
     "contract_information", "analysis_confidence", "estimated_project_value",
     "contract_type", "project_duration_weeks", "key_opportunities"}

MapField(field, r, project) ==
    CASE field = "project_overview" -> MapProjectOverview(r, project)
      [] field = "scope_of_work" -> MapScopeOfWork(r)
      [] field = "key_requirements" -> MapKeyRequirements(r)
      [] field = "technical_specifications" -> MapTechnicalSpecifications(r)
      [] field = "risk_assessment" -> MapRiskAssessment(r)
      [] field = "risk_level" -> MapRiskLevel(r)
      [] field = "timeline_analysis" -> MapTimelineAnalysis(r)
      [] field = "budget_estimates" -> MapBudgetEstimates(r)
      [] field = "contract_information" -> MapContractInformation(r)
      [] field = "analysis_confidence" -> MapAnalysisConfidence(r)
      [] field = "estimated_project_value" -> MapEstimatedProjectValue(r)
      [] field = "contract_type" -> MapContractType(r)
      [] field = "project_duration_weeks" -> MapProjectDurationWeeks(r)
      [] field = "key_opportunities" -> MapKeyOpportunities(r)

\* map_comprehensive_analysis(analysis_results, project): the returned dict, or
\* the exception that leaves the function
MapComprehensiveAnalysis(r, project) ==
    LET outcome == [field \in SchemaFields |-> MapField(field, r, project)]
    IN  IF \E field \in SchemaFields : outcome[field].raised
        THEN [raised |-> TRUE, mapped_data |-> EmptyDict]
        ELSE [raised |-> FALSE,
              mapped_data |-> [field \in {f \in SchemaFields : outcome[f].set} |->
                                    outcome[field].value]]

NoMapping == [done |-> FALSE, raised |-> FALSE, mapped_data |-> EmptyDict]

\* One call of the mapper on the analysis result at hand
Map(p) ==
    /\ ~mapping.done
    /\ LET out == MapComprehensiveAnalysis(analysis_results, ProjectRecord(p))
       IN  mapping' = [done |-> TRUE, raised |-> out.raised, mapped_data |-> out.mapped_data]
    /\ UNCHANGED analysis_results
    /\ UNCHANGED nonMapVars

\* Analysis results as the analysis service hands them over
EmptyResult == EmptyDict

LongText == [i \in 1..(ContractTypeLimit + 1) |-> "x"]
ManyRequirements == [i \in 1..(KeyRequirementsLimit + 1) |-> <<"C","S","C","S"," ","c","a","r","d">>]

FullResult ==
    [project_overview |-> PyStr(<<"R","e","f","i","t"," ","o","f"," ","t","h","e"," ","b","u","s"," ","d","e","p","o","t">>),
     project_name |-> PyStr(<<"D","e","p","o","t"," ","r","e","f","i","t">>),
     project_location |-> PyStr(<<"L","e","e","d","s">>),
     client_details |-> PyStr(<<"C","i","t","y"," ","c","o","u","n","c","i","l">>),
     project_type |-> PyStr(<<"R","e","f","u","r","b","i","s","h","m","e","n","t">>),
     scope_of_work |-> PyStr(<<"S","t","r","i","p"," ","o","u","t"," ","a","n","d"," ","f","i","t"," ","o","u","t">>),
     technical_specifications |-> PyStr(<<"N","B","S"," ","s","e","c","t","i","o","n","s">>),
     coordination_requirements |-> PyStr(<<"L","i","v","e"," ","d","e","p","o","t">>),
     key_requirements |-> PyList(<<<<"C","S","C","S"," ","c","a","r","d">>, <<"I","S","O"," ","9","0","0","1">>>>),
     required_trades |-> PyList(<<<<"R","o","o","f","i","n","g">>>>),
     compliance_requirements |-> PyList(<<<<"C","D","M"," ","2","0","1","5">>>>),
     quality_requirements |-> PyStr(<<"I","T","P","s">>),
     safety_requirements |-> PyStr(<<"P","e","r","m","i","t"," ","t","o"," ","w","o","r","k">>),
     environmental_considerations |-> PyStr(<<"B","a","t","s">>),
     drawings_available |-> PyList(<<<<"A","-","1","0","0">>, <<"A","-","1","0","1">>>>),
     risk_assessment |-> PyStr(<<"A","s","b","e","s","t","o","s"," ","i","n"," ","r","o","o","f">>),
     identified_risks |-> PyList(<<<<"A","s","b","e","s","t","o","s">>>>),
     site_conditions |-> PyStr(<<"O","c","c","u","p","i","e","d">>),
     risk_level |-> PyStr(<<"M","e","d","i","u","m">>),
     timeline_analysis |-> PyStr(<<"S","t","a","r","t"," ","i","n"," ","M","a","y">>),
     project_duration_weeks |-> PyInt(26),
     critical_milestones |-> PyList(<<<<"R","o","o","f"," ","w","a","t","e","r","t","i","g","h","t">>>>),
     budget_estimates |-> PyStr(<<"C","o","s","t"," ","p","l","a","n"," ","s","t","a","g","e"," ","3">>),
     estimated_value_range |-> PyDict([min |-> PyInt(900000), max |-> PyInt(1250000)]),
     contract_information |-> PyDict([contract_type |-> PyStr(<<"J","C","T"," ","D","&","B"," ","2","0","1","6">>)]),
     contract_type |-> PyStr(<<"J","C","T">>),
     payment_terms |-> PyStr(<<"3","0"," ","d","a","y","s">>),
     insurance_requirements |-> PyStr(<<"P","L"," ","1","0","m">>),
     liquidated_damages |-> PyStr(<<"5","0","0","0"," ","p","e","r"," ","w","e","e","k">>),
     analysis_confidence |-> PyInt(85),
     key_opportunities |-> PyList(<<<<"F","r","a","m","e","w","o","r","k"," ","p","l","a","c","e">>>>)]

\* One edit of an analysis result: the key is dropped, or holds the value
Drop(key) == [key |-> key, value |-> None]
Hold(key, v) == [key |-> key, value |-> Some(v)]

Edits ==
    {Drop("project_overview"), Hold("project_overview", PyList(<<<<"R","e","f","i","t">>>>)),
     Hold("project_name", PyInt(7)),
     Drop("key_requirements"), Hold("key_requirements", PyStr(<<"C","S","C","S"," ","c","a","r","d">>)),
     Hold("key_requirements", PyList(ManyRequirements)),
     Hold("drawings_available", PyDict([drawings_available |-> PyList(<<<<"A","-","1","0","0">>>>)])),
     Hold("risk_level", PyStr(<<"b","e","l","o","w"," ","a","v","e","r","a","g","e">>)), Hold("risk_level", PyStr(<<"C","r","i","t","i","c","a","l">>)),
     Hold("risk_level", PyInt(3)),
     Drop("project_duration_weeks"), Hold("project_duration_weeks", PyInt(0)),
     Hold("project_duration_weeks", PyStr(<<"1","2"," ","t","o"," ","1","4"," ","w","e","e","k","s">>)),
     Hold("project_duration_weeks", PyStr(<<"t","b","c">>)),
     Hold("project_duration_weeks", PyStr(<<" ">>)),
     Drop("estimated_value_range"),
     Hold("estimated_value_range", PyDict([min |-> PyInt(900000)])),
     Hold("estimated_value_range", PyDict([max |-> PyInt(0)])),
     Hold("estimated_value_range", PyStr(<<"a","b","o","u","t"," ","1","m">>)),
     Drop("contract_information"), Hold("contract_information", PyNone),
     Hold("contract_information", PyStr(<<"J","C","T">>)),
     Hold("contract_information", PyList(<<<<"a","b">>>>)),
     Hold("contract_information", PyDict([payment_terms |-> PyStr(<<"3","0"," ","d","a","y","s">>)])),
     Drop("contract_type"), Hold("contract_type", PyStr(LongText)),
     Hold("analysis_confidence", PyStr(<<"h","i","g","h">>)), Drop("analysis_confidence"),
     Hold("key_opportunities", PyStr(<<"F","r","a","m","e","w","o","r","k"," ","p","l","a","c","e">>))}

RECURSIVE Edited(_, _)
Edited(r, edits) ==
    IF edits = <<>> THEN r
    ELSE LET e == Head(edits)
             next == IF e.value = None
                     THEN [k \in (DOMAIN r) \ {e.key} |-> r[k]]
                     ELSE DictPut(r, e.key, e.value[1])
         IN  Edited(next, Tail(edits))


-----------------------------------------------------------------------------
(* QuestionAnalyzer *)

\* category_keywords, in the order of the dict literal
CategoryKeywords == <<
  [category |-> "technical", keywords |-> <<<<"t","e","c","h","n","i","c","a","l">>, <<"s","p","e","c","i","f","i","c","a","t","i","o","n">>, <<"m","a","t","e","r","i","a","l">>, <<"e","q","u","i","p","m","e","n","t">>, <<"s","y","s","t","e","m">>, <<"m","e","t","h","o","d">>>>],
  [category |-> "commercial", keywords |-> <<<<"c","o","s","t">>, <<"p","r","i","c","e">>, <<"b","u","d","g","e","t">>, <<"p","a","y","m","e","n","t">>, <<"v","a","l","u","e">>, <<"t","e","n","d","e","r">>, <<"b","i","d">>>>],
  [category |-> "programme", keywords |-> <<<<"s","c","h","e","d","u","l","e">>, <<"t","i","m","e","l","i","n","e">>, <<"d","u","r","a","t","i","o","n">>, <<"m","i","l","e","s","t","o","n","e">>, <<"d","a","t","e">>, <<"c","o","m","p","l","e","t","i","o","n">>>>],
  [category |-> "drawings", keywords |-> <<<<"d","r","a","w","i","n","g">>, <<"p","l","a","n">>, <<"l","a","y","o","u","t">>, <<"d","e","s","i","g","n">>, <<"d","e","t","a","i","l">>, <<"s","e","c","t","i","o","n">>>>],
  [category |-> "contracts", keywords |-> <<<<"c","o","n","t","r","a","c","t">>, <<"t","e","r","m","s">>, <<"c","o","n","d","i","t","i","o","n","s">>, <<"c","l","a","u","s","e">>, <<"l","i","a","b","i","l","i","t","y">>, <<"i","n","s","u","r","a","n","c","e">>>>],
  [category |-> "health_safety", keywords |-> <<<<"s","a","f","e","t","y">>, <<"h","e","a","l","t","h">>, <<"r","i","s","k">>, <<"h","a","z","a","r","d">>, <<"p","r","o","t","e","c","t","i","o","n">>, <<"w","e","l","f","a","r","e">>>>],
  [category |-> "scope", keywords |-> <<<<"s","c","o","p","e">>, <<"w","o","r","k">>, <<"i","n","c","l","u","s","i","o","n">>, <<"e","x","c","l","u","s","i","o","n">>, <<"b","o","u","n","d","a","r","y">>, <<"r","e","s","p","o","n","s","i","b","i","l","i","t","y">>>>],
  [category |-> "quality", keywords |-> <<<<"q","u","a","l","i","t","y">>, <<"s","t","a","n","d","a","r","d">>, <<"c","o","m","p","l","i","a","n","c","e">>, <<"t","e","s","t","i","n","g">>, <<"i","n","s","p","e","c","t","i","o","n">>>>] >>

\* complexity_indicators, in the order of the dict literal
ComplexityIndicators == <<
  [level |-> "simple", indicators |-> <<<<"w","h","a","t"," ","i","s">>, <<"w","h","e","r","e">>, <<"w","h","e","n">>, <<"w","h","o">>>>],
  [level |-> "moderate", indicators |-> <<<<"h","o","w">>, <<"w","h","y">>, <<"e","x","p","l","a","i","n">>, <<"d","e","s","c","r","i","b","e">>>>],
  [level |-> "complex", indicators |-> <<<<"a","n","a","l","y","z","e">>, <<"c","o","m","p","a","r","e">>, <<"e","v","a","l","u","a","t","e">>, <<"a","s","s","e","s","s">>, <<"r","e","c","o","m","m","e","n","d">>>>] >>

\* The if/elif chain of _classify_question_type
QuestionTypes == <<
  [type |-> "informational", words |-> <<<<"w","h","a","t">>, <<"d","e","f","i","n","e">>, <<"e","x","p","l","a","i","n">>>>],
  [type |-> "financial", words |-> <<<<"h","o","w"," ","m","u","c","h">>, <<"c","o","s","t">>, <<"p","r","i","c","e">>>>],
  [type |-> "temporal", words |-> <<<<"w","h","e","n">>, <<"s","c","h","e","d","u","l","e">>, <<"t","i","m","e","l","i","n","e">>>>],
  [type |-> "spatial", words |-> <<<<"w","h","e","r","e">>, <<"l","o","c","a","t","i","o","n">>, <<"s","i","t","e">>>>],
  [type |-> "procedural", words |-> <<<<"h","o","w">>, <<"p","r","o","c","e","s","s">>, <<"m","e","t","h","o","d">>>>] >>

StopWords == {<<"t","h","e">>, <<"i","s">>, <<"a","r","e">>, <<"w","h","a","t">>, <<"w","h","e","r","e">>, <<"w","h","e","n">>, <<"h","o","w">>, <<"w","h","y">>, <<"c","a","n">>, <<"w","i","l","l">>, <<"w","o","u","l","d">>, <<"s","h","o","u","l","d">>}

KeyTermMinLength == 3       \* len(word) > 3
KeyTermLimit == 10          \* key_terms[:10]

\* \w
IsWordChar(c) == c \in (DOMAIN LowerTable) \cup (DOMAIN UpperTable) \/ IsDigit(c) \/ c = "_"

\* re.findall(r'\b\w+\b', s): the maximal runs of word characters, in order
RECURSIVE WordsFrom(_, _, _)
WordsFrom(s, i, word) ==
    IF i > Len(s) THEN (IF word = <<>> THEN <<>> ELSE <<word>>)
    ELSE IF ~IsWordChar(s[i])
         THEN (IF word = <<>> THEN <<>> ELSE <<word>>) \o WordsFrom(s, i + 1, <<>>)
         ELSE WordsFrom(s, i + 1, Append(word, s[i]))

\* _extract_key_terms(question) (lines 60-65)
ExtractKeyTerms(question) ==
    LET words == WordsFrom(Lower(question), 1, <<>>)
    IN  Take(SelectSeq(words, LAMBDA word : Len(word) > KeyTermMinLength /\ word \notin StopWords),
             KeyTermLimit)

\* _classify_question_type(question) (lines 67-80)
ClassifyQuestionType(question) ==
    LET hits == {k \in 1..Len(QuestionTypes) : AnyTermIn(QuestionTypes[k].words, question)}
    IN  IF hits = {} THEN "general" ELSE QuestionTypes[SetMin(hits)].type

\* analyze_question(question) (lines 28-58)
AnalyzeQuestion(question) ==
    LET question_lower == Lower(question)
        matched == SelectSeq(CategoryKeywords,
                             LAMBDA entry : AnyTermIn(entry.keywords, question_lower))
        relevant_categories ==
            IF matched = <<>> THEN <<"general", "technical", "commercial">>
            ELSE [k \in 1..Len(matched) |-> matched[k].category]
        levels == {k \in 1..Len(ComplexityIndicators) :
                        AnyTermIn(ComplexityIndicators[k].indicators, question_lower)}
    IN  [relevant_categories |-> relevant_categories,
         complexity |-> IF levels = {} THEN "simple"
                        ELSE ComplexityIndicators[SetMin(levels)].level,
         key_terms |-> ExtractKeyTerms(question),
         question_type |-> ClassifyQuestionType(question_lower),
         requires_cross_reference |-> Len(relevant_categories) > 1]

-----------------------------------------------------------------------------
(* EnhancedAIResponder *)

\* search_knowledge_base(knowledge_base, query_terms): the set the loop collects
SearchKnowledgeBase(knowledge_base, query_terms) ==
    UNION {{DictLookup(knowledge_base.search_index, Lower(query_terms[k]), <<>>)[i] :
                i \in 1..Len(DictLookup(knowledge_base.search_index, Lower(query_terms[k]), <<>>))} :
           k \in 1..Len(query_terms)}

\* list(a_set): the elements in some order
Orderings(S) ==
    {order \in [1..Cardinality(S) -> S] : \A i, j \in 1..Cardinality(S) : order[i] = order[j] => i = j}

DefaultExtractedConfidence == 75    \* _extract_confidence without a match
SourceDocumentLimit == 5            \* relevant_docs[:5]

\* The first position from which t occurs in s, 0 when it does not occur
Find(s, t) ==
    LET at == {i \in 1..(Len(s) - Len(t) + 1) : SubSeq(s, i, i + Len(t) - 1) = t}
    IN  IF at = {} THEN 0 ELSE SetMin(at)

\* [:\s]
IsColonOrSpace(c) == c = ":" \/ IsSpace(c)

\* The position after the longest run of characters satisfying Test(_) from i
RunEnd(s, i, Test(_)) ==
    LET stops == {j \in i..Len(s) : ~Test(s[j])}
    IN  IF stops = {} THEN Len(s) + 1 ELSE SetMin(stops)

\* re.search(marker + r'[:\s]*(.+?)(?=\*\*|$)', text, DOTALL | IGNORECASE):
\* group 1 of the leftmost match, None when there is no match. The marker is
\* given in upper case.
SearchSection(text, marker) ==
    LET at == Find(Upper(text), marker)
        start == RunEnd(text, at + Len(marker), IsColonOrSpace)
        \* positions where the lookahead (?=\*\*|$) holds
        ends == {q \in (start + 1)..(Len(text) + 1) :
                    \/ q = Len(text) + 1
                    \/ (q = Len(text) /\ text[q] = "\n")
                    \/ (q < Len(text) /\ text[q] = "*" /\ text[q + 1] = "*")}
    IN  IF at = 0 THEN None
        ELSE IF start <= Len(text) THEN Some(SubSeq(text, start, SetMin(ends) - 1))
        ELSE IF start > at + Len(marker) THEN Some(<<text[Len(text)]>>)
        ELSE None

\* _extract_section(text, pattern, default) (lines 187-192)
ExtractSection(text, marker, default) ==
    LET match == SearchSection(text, marker)
    IN  IF match # None THEN Strip(match[1]) ELSE default

IsBullet(c) == c \in {Bullet, "-", "*"}

\* The length of the separator [•\-\*]\s*|^\d+\.\s* matching at position i, 0 when none does
SeparatorAt(s, i) ==
    LET digitsEnd == RunEnd(s, i, IsDigit)
    IN  IF IsBullet(s[i]) THEN RunEnd(s, i + 1, IsSpace) - i
        ELSE IF /\ (i = 1 \/ s[i - 1] = "\n")
                /\ digitsEnd > i
                /\ digitsEnd <= Len(s)
                /\ s[digitsEnd] = "."
             THEN RunEnd(s, digitsEnd + 1, IsSpace) - i
        ELSE 0

\* re.split(r'[•\-\*]\s*|^\d+\.\s*', s, flags=re.MULTILINE)
RECURSIVE SplitItems(_, _, _)
SplitItems(s, i, item) ==
    IF i > Len(s) THEN <<item>>
    ELSE LET width == SeparatorAt(s, i)
         IN  IF width > 0 THEN <<item>> \o SplitItems(s, i + width, <<>>)
             ELSE SplitItems(s, i + 1, Append(item, s[i]))

\* _extract_list_section(text, pattern) (lines 194-201)
ExtractListSection(text, marker) ==
    LET match == SearchSection(text, marker)
        items == SplitItems(Strip(match[1]), 1, <<>>)
        kept == SelectSeq(items, LAMBDA item : Strip(item) # <<>>)
    IN  IF match # None THEN [k \in 1..Len(kept) |-> Strip(kept[k])] ELSE <<>>

\* re.search(r'CONFIDENCE[:\s]*(\d+)', text, re.IGNORECASE): the digits of the
\* leftmost match, None when there is no match
SearchConfidence(text) ==
    LET marker == <<"C","O","N","F","I","D","E","N","C","E">>
        upper == Upper(text)
        matches == {i \in 1..(Len(text) - Len(marker) + 1) :
                        /\ SubSeq(upper, i, i + Len(marker) - 1) = marker
                        /\ LET start == RunEnd(text, i + Len(marker), IsColonOrSpace)
                           IN  start <= Len(text) /\ IsDigit(text[start])}
        first == SetMin(matches)
        start == RunEnd(text, first + Len(marker), IsColonOrSpace)
    IN  IF matches = {} THEN None
        ELSE Some(SubSeq(text, start, RunEnd(text, start, IsDigit) - 1))

\* Mutant: without a match the confidence is 0
ExtractConfidenceOrZero(text) ==
    LET confidence_match == SearchConfidence(text)
    IN  IF confidence_match # None THEN ParseInt(confidence_match[1])
        ELSE 0

\* _extract_confidence(text) (lines 203-208)
ExtractConfidence(text) ==
    LET confidence_match == SearchConfidence(text)
    IN  IF confidence_match # None THEN ParseInt(confidence_match[1])
        ELSE DefaultExtractedConfidence

\* _parse_ai_response(response_text) (lines 173-185)
ParseAiResponse(response_text) ==
    [answer |-> ExtractSection(response_text, <<"D","I","R","E","C","T"," ","A","N","S","W","E","R">>, <<>>),
     key_findings |-> ExtractListSection(response_text, <<"K","E","Y"," ","F","I","N","D","I","N","G","S">>),
     document_references |-> ExtractListSection(response_text, <<"D","O","C","U","M","E","N","T"," ","R","E","F","E","R","E","N","C","E","S">>),
     cross_references |-> ExtractListSection(response_text, <<"C","R","O","S","S"," ","R","E","F","E","R","E","N","C","E","S">>),
     recommendations |-> ExtractListSection(response_text, <<"R","E","C","O","M","M","E","N","D","A","T","I","O","N","S">>),
     follow_up_questions |-> ExtractListSection(response_text, <<"F","O","L","L","O","W","-","U","P"," ","Q","U","E","S","T","I","O","N","S">>),
     confidence |-> ExtractConfidence(response_text)]

\* The dict returned when no answer was generated (lines 151-159, 163-171)
NoAnswerGenerated(answer) ==
    [answer |-> answer, confidence |-> 0, key_findings |-> <<>>,
     document_references |-> <<>>, cross_references |-> <<>>,
     recommendations |-> <<>>, follow_up_questions |-> <<>>]

\* Completions of the model service
CompletionHeaded ==
    <<"*","*","D","I","R","E","C","T"," ","A","N","S","W","E","R","*","*",":"," ","F","r","i","d","a","y"," ","n","o","o","n","\n","*","*","K","E","Y"," ","F","I","N","D","I","N","G","S","*","*",":","\n","-"," ","F","o","r","m"," ","o","f"," ","t","e","n","d","e","r","\n","1","."," ","B","o","n","d","\n","*","*","C","O","N","F","I","D","E","N","C","E"," ","L","E","V","E","L","*","*",":"," ","8","5">>
CompletionPlain ==
    <<"D","i","r","e","c","t"," ","a","n","s","w","e","r",":"," ","F","r","i","d","a","y"," ","n","o","o","n","\n","C","o","n","f","i","d","e","n","c","e",":"," ","1","2","0">>
CompletionUnmarked ==
    <<"T","h","e"," ","d","e","a","d","l","i","n","e"," ","i","s"," ","F","r","i","d","a","y",".">>

\* What the model service does with one request: it is not configured, the
\* call raises, or the call returns a completion
ModelReplies ==
    {[available |-> FALSE, raised |-> FALSE, error |-> <<>>, text |-> <<>>],
     [available |-> TRUE, raised |-> TRUE, error |-> <<"C","o","n","n","e","c","t","i","o","n"," ","e","r","r","o","r",".">>, text |-> <<>>]}
    \cup {[available |-> TRUE, raised |-> FALSE, error |-> <<>>, text |-> t] :
            t \in {CompletionHeaded, CompletionPlain, CompletionUnmarked}}

\* How the model call of an answer ended
ModelCallOutcome(reply) ==
    IF ~reply.available THEN "unavailable"
    ELSE IF reply.raised THEN "failed"
    ELSE "answered"

\* _generate_ai_response(context, question, project) (lines 108-171)
GenerateAiResponse(reply) ==
    IF ~reply.available
    THEN NoAnswerGenerated(<<"A","I"," ","s","e","r","v","i","c","e"," ","u","n","a","v","a","i","l","a","b","l","e","."," ","P","l","e","a","s","e"," ","c","h","e","c","k"," ","c","o","n","f","i","g","u","r","a","t","i","o","n",".">>)
    ELSE IF reply.raised
    THEN NoAnswerGenerated(<<"E","r","r","o","r"," ","g","e","n","e","r","a","t","i","n","g"," ","A","I"," ","r","e","s","p","o","n","s","e",":"," ">> \o reply.error)
    ELSE ParseAiResponse(reply.text)

\* Questions put to the responder
QuestionDeadline == <<"W","h","a","t"," ","i","s"," ","t","h","e"," ","t","e","n","d","e","r"," ","d","e","a","d","l","i","n","e","?">>
QuestionContract == <<"W","h","i","c","h"," ","c","o","n","t","r","a","c","t"," ","c","o","n","d","i","t","i","o","n","s"," ","a","p","p","l","y"," ","t","o"," ","t","h","e"," ","p","r","o","g","r","a","m","m","e","?">>
Questions == {QuestionDeadline, QuestionContract}

\* Questions put to the responder of a project with long documents: one that
\* names no keyword of the taxonomy, one that names three categories
QuestionArchitect == <<"W","h","o"," ","i","s"," ","t","h","e"," ","a","r","c","h","i","t","e","c","t","?">>
QuestionDrawingsCost == <<"W","h","a","t"," ","d","o"," ","t","h","e"," ","c","o","n","t","r","a","c","t"," ","d","r","a","w","i","n","g","s"," ","c","o","s","t","?">>
ContextQuestions ==
    {QuestionDeadline, QuestionContract, QuestionArchitect, QuestionDrawingsCost}

\* The analysis of each question and the parsed form of each reply, as tables
QuestionAnalysisOf == [question \in Questions \cup ContextQuestions |-> AnalyzeQuestion(question)]
AiResponseOf == [reply \in ModelReplies |-> GenerateAiResponse(reply)]

CategoryDocumentLimit == 3      \* documents_by_category[category][:3]
CategoryContentLimit == 2000    \* doc['content'][:2000]
RelevantDocumentLimit == 5      \* relevant_docs[:5]
RelevantContentLimit == 3000    \* document_contents[doc_name][:3000]
ContextLimit == 25000           \* relevant_content[:25000]

\* The characters of a category name
CategoryText ==
    [category \in {"technical", "commercial", "programme", "drawings", "contracts",
                   "health_safety", "scope", "quality", "general", "specifications",
                   "schedules"} |->
        CASE category = "technical" -> <<"t","e","c","h","n","i","c","a","l">>
          [] category = "commercial" -> <<"c","o","m","m","e","r","c","i","a","l">>
          [] category = "programme" -> <<"p","r","o","g","r","a","m","m","e">>
          [] category = "drawings" -> <<"d","r","a","w","i","n","g","s">>
          [] category = "contracts" -> <<"c","o","n","t","r","a","c","t","s">>
          [] category = "health_safety" -> <<"h","e","a","l","t","h","_","s","a","f","e","t","y">>
          [] category = "scope" -> <<"s","c","o","p","e">>
          [] category = "quality" -> <<"q","u","a","l","i","t","y">>
          [] category = "general" -> <<"g","e","n","e","r","a","l">>
          [] category = "specifications" -> <<"s","p","e","c","i","f","i","c","a","t","i","o","n","s">>
          [] category = "schedules" -> <<"s","c","h","e","d","u","l","e","s">>]

\* f"\n\n=== {category.upper()} DOCUMENTS ===\n" (line 89)
CategoryHeading(category) ==
    <<"\n","\n","=","=","="," ">> \o Upper(CategoryText[category]) \o <<" ","D","O","C","U","M","E","N","T","S"," ","=","=","=","\n">>

\* f"\n--- {doc['name']} ---\n{doc['content'][:2000]}\n" (line 91)
CategoryDocumentBlock(doc) ==
    <<"\n","-","-","-"," ">> \o doc.name \o <<" ","-","-","-","\n">> \o Take(doc.content, CategoryContentLimit) \o <<"\n">>

\* The inner loop of lines 90-91 over the documents of a category
RECURSIVE CategoryDocumentBlocks(_)
CategoryDocumentBlocks(docs) ==
    IF docs = <<>> THEN <<>>
    ELSE CategoryDocumentBlock(Head(docs)) \o CategoryDocumentBlocks(Tail(docs))

\* The loop of lines 87-91 over the relevant categories
RECURSIVE CategoryContent(_, _)
CategoryContent(knowledge_base, categories) ==
    IF categories = <<>> THEN <<>>
    ELSE LET category == Head(categories)
             by_category == knowledge_base.documents_by_category
         IN  (IF category \in DOMAIN by_category
              THEN CategoryHeading(category)
                   \o CategoryDocumentBlocks(Take(by_category[category], CategoryDocumentLimit))
              ELSE <<>>)
             \o CategoryContent(knowledge_base, Tail(categories))

\* f"\n\n=== {doc_name} ===\n" (line 96)
RelevantDocumentHeading(doc_name) == <<"\n","\n","=","=","="," ">> \o doc_name \o <<" ","=","=","=","\n">>

\* The loop of lines 94-97 over the documents the search returned
RECURSIVE RelevantDocumentContent(_, _)
RelevantDocumentContent(knowledge_base, doc_names) ==
    IF doc_names = <<>> THEN <<>>
    ELSE LET doc_name == Head(doc_names)
         IN  (IF doc_name \in DOMAIN knowledge_base.document_contents
              THEN RelevantDocumentHeading(doc_name)
                   \o Take(knowledge_base.document_contents[doc_name], RelevantContentLimit)
              ELSE <<>>)
             \o RelevantDocumentContent(knowledge_base, Tail(doc_names))

\* relevant_content before the slice of line 103
AssembledContent(knowledge_base, question_analysis, relevant_docs) ==
    CategoryContent(knowledge_base, question_analysis.relevant_categories)
    \o RelevantDocumentContent(knowledge_base, Take(relevant_docs, RelevantDocumentLimit))

\* Mutant: the assembled content is handed on whole
PrepareAiContextUncut(knowledge_base, question_analysis, relevant_docs, question) ==
    [project_info |-> knowledge_base.project_info,
     question |-> question,
     question_analysis |-> question_analysis,
     relevant_content |-> AssembledContent(knowledge_base, question_analysis, relevant_docs),
     knowledge_stats |-> knowledge_base.processing_summary,
     available_categories |-> DOMAIN knowledge_base.documents_by_category]

\* _prepare_ai_context(knowledge_base, question_analysis, relevant_docs, question)
\* (lines 82-106)
PrepareAiContext(knowledge_base, question_analysis, relevant_docs, question) ==
    [project_info |-> knowledge_base.project_info,
     question |-> question,
     question_analysis |-> question_analysis,
     relevant_content |->
        Take(AssembledContent(knowledge_base, question_analysis, relevant_docs), ContextLimit),
     knowledge_stats |-> knowledge_base.processing_summary,
     available_categories |-> DOMAIN knowledge_base.documents_by_category]

\* No context assembled yet
NoPrepared == [given |-> FALSE, knowledge_base |-> <<>>, question |-> <<>>,
               relevant_docs |-> <<>>, context |-> <<>>]

\* The document loop of build_project_knowledge_base (lines 62-106) run to its end
RECURSIVE ProcessDocuments(_, _)
ProcessDocuments(k, docs) ==
    IF docs = <<>> THEN k
    ELSE ProcessDocuments(ProcessDocument(k, Head(docs)), Tail(docs))

\* The knowledge base built from a folder of n long documents
LongKnowledgeBase(n) ==
    ProcessDocuments(NewKnowledgeBase("P1", LongListing(n)), ProcessedSlice(LongListing(n)))

\* generate_comprehensive_response, lines 26-38: the question is analysed, the
\* knowledge base searched and the context prepared
Prepare ==
    /\ ~prepared.given
    /\ prepared.knowledge_base # <<>>
    /\ LET question_analysis == QuestionAnalysisOf[prepared.question]
       IN  \E relevant_docs \in Orderings(SearchKnowledgeBase(prepared.knowledge_base,
                                                question_analysis.key_terms)) :
                prepared' = [prepared EXCEPT
                                !.given = TRUE,
                                !.relevant_docs = relevant_docs,
                                !.context = PrepareAiContext(prepared.knowledge_base,
                                                question_analysis, relevant_docs,
                                                prepared.question)]
    /\ UNCHANGED embedded
    /\ UNCHANGED nonContextVars

NoConversation == <<>>

\* Mutant: every call creates a conversation of its own
StoreConversationAlwaysCreated(table, p, question, ai_response, store_fails) ==
    IF store_fails THEN table
    ELSE [table EXCEPT ![p] =
            Append(@, [title |-> ProjectRecord(p).name,
                       questions |-> <<[question_text |-> question,
                                        answer_text |-> ai_response.answer,
                                        confidence_score |-> ai_response.confidence,
                                        source_documents |-> ai_response.document_references,
                                        document_references |-> ai_response.cross_references,
                                        analysis_metadata |->
                                            [key_findings |-> ai_response.key_findings,
                                             recommendations |-> ai_response.recommendations,
                                             follow_up_questions |-> ai_response.follow_up_questions]]>>])]

\* _store_conversation(project, question, ai_response) (lines 210-235): the
\* conversation of the project, got or created, with one more question
StoreConversation(table, p, question, ai_response, store_fails) ==
    IF store_fails THEN table
    ELSE LET conversation ==
                 IF table[p] = NoConversation
                 THEN [title |-> <<"A","I"," ","C","o","n","v","e","r","s","a","t","i","o","n"," ","-"," ">> \o ProjectRecord(p).name,
                       questions |-> <<>>]
                 ELSE table[p][1]
             row == [question_text |-> question,
                     answer_text |-> ai_response.answer,
                     confidence_score |-> ai_response.confidence,
                     source_documents |-> ai_response.document_references,
                     document_references |-> ai_response.cross_references,
                     analysis_metadata |->
                         [key_findings |-> ai_response.key_findings,
                          recommendations |-> ai_response.recommendations,
                          follow_up_questions |-> ai_response.follow_up_questions]]
         IN  [table EXCEPT ![p] = Some([conversation EXCEPT !.questions = Append(@, row)])]

\* list(d.keys()), as the set of keys
CategoryKeys(knowledge_base) == DOMAIN knowledge_base.documents_by_category

\* The dict generate_comprehensive_response returns from its try block (lines 52-72)
SuccessResponse(ai_response, knowledge_base, relevant_docs, processing_time) ==
    [success |-> TRUE,
     answer |-> ai_response.answer,
     confidence |-> ai_response.confidence,
     key_findings |-> ai_response.key_findings,
     source_documents |-> Take(relevant_docs, SourceDocumentLimit),
     document_references |-> ai_response.document_references,
     cross_references |-> ai_response.cross_references,
     recommendations |-> ai_response.recommendations,
     follow_up_questions |-> ai_response.follow_up_questions,
     knowledge_base_stats |->
        [total_documents |-> knowledge_base.processing_summary.total_documents,
         processed_documents |-> knowledge_base.processing_summary.processed_successfully,
         document_categories |-> CategoryKeys(knowledge_base),
         relevant_documents_found |-> Len(relevant_docs)],
     processing_time |-> processing_time,
     analysis_type |-> "COMPREHENSIVE_SHAREPOINT"]

\* The dict it returns from its except block (lines 74-80)
ErrorResponse(error) ==
    [success |-> FALSE,
     error |-> "Failed to generate response: " \o error,
     analysis_type |-> "ERROR"]

NoAsk == [active |-> FALSE, worker |-> "", project |-> "", question |-> <<>>,
          force_refresh |-> FALSE, start_time |-> 0]
NoAnswer == [given |-> FALSE, project |-> "", question |-> <<>>, build |-> "none",
             model |-> "none", response |-> EmptyDict]

StoredQuestions(table, p) ==
    IF table[p] = NoConversation THEN 0 ELSE Len(table[p][1].questions)

\* generate_comprehensive_response, lines 20-32: the question is analysed and
\* the knowledge base is asked for
AnswerStartWithin(limit, w, p, question, force_refresh) ==
    /\ ~asking.active
    /\ StoredQuestions(conversations, p) < limit
    /\ asking' = [active |-> TRUE, worker |-> w, project |-> p, question |-> question,
                  force_refresh |-> force_refresh, start_time |-> now]
    /\ BuildStartCall(w, p, force_refresh)
    /\ UNCHANGED <<answered, conversations>>
    /\ UNCHANGED <<rfiVars, mapVars, enhancedVars, contextVars>>

AnswerStart(w, p, question, force_refresh) ==
    AnswerStartWithin(MaxQuestions, w, p, question, force_refresh)

\* The same call of a project whose conversation is observed for longer
AnswerStartRecorded(w, p, question, force_refresh) ==
    AnswerStartWithin(MaxStoredAnswers, w, p, question, force_refresh)

\* generate_comprehensive_response, lines 34-80: once the knowledge base call
\* has returned or raised
AnswerFinish(reply, store_fails) ==
    /\ asking.active
    /\ pc[asking.worker] = "idle"
    /\ LET built == result[asking.worker]
           question_analysis == QuestionAnalysisOf[asking.question]
       IN  IF built.status = "raised"
           THEN /\ answered' = [given |-> TRUE, project |-> asking.project,
                                question |-> asking.question, build |-> "raised",
                                model |-> "none", response |-> ErrorResponse(built.error)]
                /\ UNCHANGED <<conversations, prepared>>
           ELSE LET knowledge_base == built.value[1]
                    ai_response == AiResponseOf[reply]
                IN  \E relevant_docs \in Orderings(SearchKnowledgeBase(knowledge_base,
                                                        question_analysis.key_terms)) :
                        /\ prepared' = [given |-> TRUE,
                                        knowledge_base |-> knowledge_base,
                                        question |-> asking.question,
                                        relevant_docs |-> relevant_docs,
                                        context |-> PrepareAiContext(knowledge_base,
                                                        question_analysis, relevant_docs,
                                                        asking.question)]
                        /\ conversations' = StoreConversation(conversations, asking.project,
                                                asking.question, ai_response, store_fails)
                        /\ answered' = [given |-> TRUE, project |-> asking.project,
                                        question |-> asking.question, build |-> "returned",
                                        model |-> ModelCallOutcome(reply),
                                        response |-> SuccessResponse(ai_response, knowledge_base,
                                                        relevant_docs, now - asking.start_time)]
    /\ asking' = NoAsk
    /\ UNCHANGED <<buildVars, embedded>>
    /\ UNCHANGED <<rfiVars, mapVars, enhancedVars>>

-----------------------------------------------------------------------------
(* EnhancedDocumentQuestionAnswerer *)

ACircumflex == "A-circumflex"

\* The `categories` dict of _categorize_document, in declaration order
EnhancedCategories == <<
  [category |-> "CONTRACT", keywords |-> <<<<"c","o","n","t","r","a","c","t">>, <<"a","g","r","e","e","m","e","n","t">>, <<"t","e","r","m","s">>, <<"c","o","n","d","i","t","i","o","n","s">>, <<"j","c","t">>, <<"n","e","c">>>>],
  [category |-> "DRAWINGS", keywords |-> <<<<"d","r","a","w","i","n","g">>, <<"p","l","a","n">>, <<"e","l","e","v","a","t","i","o","n">>, <<"s","e","c","t","i","o","n">>, <<"d","e","t","a","i","l">>, <<"d","w","g">>>>],
  [category |-> "SPECIFICATIONS", keywords |-> <<<<"s","p","e","c","i","f","i","c","a","t","i","o","n">>, <<"s","p","e","c">>, <<"t","e","c","h","n","i","c","a","l">>, <<"s","t","a","n","d","a","r","d">>, <<"r","e","q","u","i","r","e","m","e","n","t">>>>],
  [category |-> "SCHEDULE", keywords |-> <<<<"s","c","h","e","d","u","l","e">>, <<"p","r","o","g","r","a","m","m","e">>, <<"t","i","m","e","l","i","n","e">>, <<"d","a","t","e","s">>, <<"m","i","l","e","s","t","o","n","e","s">>>>],
  [category |-> "PRICING", keywords |-> <<<<"p","r","i","c","i","n","g">>, <<"r","a","t","e","s">>, <<"c","o","s","t">>, <<"e","s","t","i","m","a","t","e">>, <<"b","u","d","g","e","t">>, <<"b","i","l","l"," ","o","f"," ","q","u","a","n","t","i","t","i","e","s">>, <<"b","o","q">>>>],
  [category |-> "HEALTH_SAFETY", keywords |-> <<<<"h","e","a","l","t","h">>, <<"s","a","f","e","t","y">>, <<"c","d","m">>, <<"r","i","s","k"," ","a","s","s","e","s","s","m","e","n","t">>, <<"m","e","t","h","o","d"," ","s","t","a","t","e","m","e","n","t">>>>],
  [category |-> "ENVIRONMENTAL", keywords |-> <<<<"e","n","v","i","r","o","n","m","e","n","t","a","l">>, <<"s","u","s","t","a","i","n","a","b","i","l","i","t","y">>, <<"b","r","e","e","a","m">>, <<"c","a","r","b","o","n">>, <<"e","n","e","r","g","y">>>>],
  [category |-> "TENDER_DOCS", keywords |-> <<<<"t","e","n","d","e","r">>, <<"i","n","v","i","t","a","t","i","o","n">>, <<"i","t","t">>, <<"i","t","q">>, <<"r","f","q">>, <<"p","r","o","p","o","s","a","l">>>>],
  [category |-> "STRUCTURAL", keywords |-> <<<<"s","t","r","u","c","t","u","r","a","l">>, <<"f","o","u","n","d","a","t","i","o","n">>, <<"c","o","n","c","r","e","t","e">>, <<"s","t","e","e","l">>, <<"l","o","a","d">>>>],
  [category |-> "MEP", keywords |-> <<<<"m","e","c","h","a","n","i","c","a","l">>, <<"e","l","e","c","t","r","i","c","a","l">>, <<"p","l","u","m","b","i","n","g">>, <<"h","v","a","c">>, <<"s","e","r","v","i","c","e","s">>, <<"m","&","e">>>>],
  [category |-> "PLANNING", keywords |-> <<<<"p","l","a","n","n","i","n","g">>, <<"p","e","r","m","i","s","s","i","o","n">>, <<"c","o","n","s","e","n","t">>, <<"a","p","p","l","i","c","a","t","i","o","n">>, <<"a","p","p","r","o","v","e","d">>>>],
  [category |-> "SURVEYS", keywords |-> <<<<"s","u","r","v","e","y">>, <<"i","n","v","e","s","t","i","g","a","t","i","o","n">>, <<"r","e","p","o","r","t">>, <<"a","s","s","e","s","s","m","e","n","t">>, <<"c","o","n","d","i","t","i","o","n">>>>],
  [category |-> "CORRESPONDENCE", keywords |-> <<<<"e","m","a","i","l">>, <<"l","e","t","t","e","r">>, <<"m","e","m","o">>, <<"c","o","r","r","e","s","p","o","n","d","e","n","c","e">>, <<"m","e","e","t","i","n","g">>>>] >>

\* The keywords of the k-th category that occur in a lowercased string
KeywordsIn(k, lowered) ==
    {i \in 1..Len(EnhancedCategories[k].keywords) :
        Contains(lowered, EnhancedCategories[k].keywords[i])}

\* Mutant: the content is consulted before the filename
EnhancedCategorizeDocumentContentFirst(filename, content) ==
    LET by_name == {k \in 1..Len(EnhancedCategories) : KeywordsIn(k, Lower(filename)) # {}}
        by_content == {k \in 1..Len(EnhancedCategories) :
                          Cardinality(KeywordsIn(k, Lower(content))) >= 2}
    IN  IF by_content # {} THEN EnhancedCategories[SetMin(by_content)].category
        ELSE IF by_name # {} THEN EnhancedCategories[SetMin(by_name)].category
        ELSE "OTHER"

\* _categorize_document(filename, content)
EnhancedCategorizeDocument(filename, content) ==
    LET filename_lower == Lower(filename)
        content_lower == Lower(content)
        by_name == {k \in 1..Len(EnhancedCategories) : KeywordsIn(k, filename_lower) # {}}
        by_content == {k \in 1..Len(EnhancedCategories) :
                          Cardinality(KeywordsIn(k, content_lower)) >= 2}
    IN  IF by_name # {} THEN EnhancedCategories[SetMin(by_name)].category
        ELSE IF by_content # {} THEN EnhancedCategories[SetMin(by_content)].category
        ELSE "OTHER"

BaseConfidence == 50            \* base_confidence = 50.0
SpecificDatesBonus == 10        \* confidence_factors['specific_dates']
SpecificValuesBonus == 15       \* confidence_factors['specific_values']
DetailedSpecsBonus == 10        \* confidence_factors['detailed_specs']
DetailedLength == 2000          \* len(text) > 2000
ConfidenceCap == 95             \* min(base_confidence, 95.0)

\* text[i..j] is a run of digits
AllDigits(text, i, j) == j <= Len(text) /\ \A k \in i..j : IsDigit(text[k])

IsDateSeparator(text, i) == i <= Len(text) /\ text[i] \in {"/", "-"}

\* re.search(r'\d{1,2}[/-]\d{1,2}[/-]\d{2,4}', text)
SearchDate(text) ==
    \E i \in 1..Len(text), a \in 1..2, b \in 1..2 :
        /\ AllDigits(text, i, i + a - 1)
        /\ IsDateSeparator(text, i + a)
        /\ AllDigits(text, i + a + 1, i + a + b)
        /\ IsDateSeparator(text, i + a + b + 1)
        /\ AllDigits(text, i + a + b + 2, i + a + b + 3)

\* re.search of the pattern the source file holds for a sum of money: the two
\* characters A-circumflex and pound sign, then a digit or a comma
SearchValue(text) ==
    \E i \in 1..(Len(text) - 2) :
        /\ text[i] = ACircumflex
        /\ text[i + 1] = PoundSign
        /\ (IsDigit(text[i + 2]) \/ text[i + 2] = ",")

\* _calculate_confidence(text)
CalculateConfidence(text) ==
    LET with_dates == BaseConfidence + (IF SearchDate(text) THEN SpecificDatesBonus ELSE 0)
        with_values == with_dates + (IF SearchValue(text) THEN SpecificValuesBonus ELSE 0)
        base_confidence == with_values + (IF Len(text) > DetailedLength THEN DetailedSpecsBonus ELSE 0)
    IN  IF base_confidence < ConfidenceCap THEN base_confidence ELSE ConfidenceCap

\* File names and extracted texts handed to the categorizers
NameNotes == <<"n","o","t","e","s",".","t","x","t">>
ContentBudget == <<"t","h","e"," ","b","u","d","g","e","t"," ","i","s"," ","a","t","t","a","c","h","e","d">>
ContentSchedule == <<"P","r","o","g","r","a","m","m","e"," ","d","a","t","e","s"," ","a","n","d"," ","m","i","l","e","s","t","o","n","e","s">>
CategorizedNames == {NameContract, NamePlan, NameProgramme, NameNotes, NameUnknown}
CategorizedContents == {TextContract, TextProgramme, ContentBudget, ContentSchedule, <<>>}

NoCategorized == [previous |-> None, latest |-> None]

\* What each categorizer returns for each document, as a table
CategoryOf ==
    [filename \in CategorizedNames |->
        [content \in CategorizedContents |->
            [category |-> EnhancedCategorizeDocument(filename, content),
             doc_category |-> CategorizeDocument(filename)]]]

\* One call of each categorizer on a document; the call before it is kept
Categorize(filename, content) ==
    /\ categorized' =
          [previous |-> categorized.latest,
           latest |-> Some([filename |-> filename, content |-> content,
                            category |-> CategoryOf[filename][content].category,
                            doc_category |-> CategoryOf[filename][content].doc_category])]
    /\ UNCHANGED scored
    /\ UNCHANGED nonEnhancedVars

\* Completions of the model whose confidence is worked out
Filler(n) == [i \in 1..n |-> "x"]
AnswerDated == <<"T","e","n","d","e","r"," ","r","e","t","u","r","n"," ","i","s"," ","1","2","/","0","5","/","2","0","2","5","."," ">>
AnswerPriced == <<"T","h","e"," ","b","u","d","g","e","t"," ","i","s"," ",ACircumflex,PoundSign,"1",",","2","0","0",",","0","0","0","."," ">>
AnswerPoundOnly == <<"T","h","e"," ","b","u","d","g","e","t"," ","i","s"," ",PoundSign,"1",",","2","0","0",",","0","0","0",".">>
AnswerDetailed == AnswerDated \o AnswerPriced \o Filler(DetailedLength)
AnswerAtLength == Filler(DetailedLength)
ScoredCompletions ==
    {CompletionUnmarked, CompletionPlain, CompletionHeaded, AnswerDated, AnswerPriced,
     AnswerPoundOnly, AnswerDetailed, AnswerAtLength}

NoScored == [done |-> FALSE, text |-> <<>>, parsed |-> 0, extracted |-> 0, calculated |-> 0]

\* The confidences of each completion, as a table
ConfidenceOf ==
    [text \in ScoredCompletions |->
        [parsed |-> ParseAiResponse(text).confidence,
         extracted |-> ExtractConfidence(text),
         calculated |-> CalculateConfidence(text)]]

\* The confidence each answer path works out for one completion:
\* _parse_ai_response and _extract_confidence of the responder,
\* _calculate_confidence of the enhanced answerer
Score(text) ==
    /\ scored' = [done |-> TRUE, text |-> text,
                  parsed |-> ConfidenceOf[text].parsed,
                  extracted |-> ConfidenceOf[text].extracted,
                  calculated |-> ConfidenceOf[text].calculated]
    /\ UNCHANGED categorized
    /\ UNCHANGED nonEnhancedVars

-----------------------------------------------------------------------------
(* EnhancedDocumentQuestionAnswerer: the document content of the prompt *)

DocumentContentLimit == 3000    \* content[:3000]
CombinedContentLimit == 20000   \* combined_content[:20000]
EmbeddedContentLimit == 15000   \* relevant_content[:15000]

EnhancedCategoryNames ==
    {EnhancedCategories[k].category : k \in 1..Len(EnhancedCategories)} \cup {"OTHER"}

\* The characters of a category name
EnhancedCategoryText ==
    [category \in EnhancedCategoryNames |->
        CASE category = "CONTRACT" -> <<"C","O","N","T","R","A","C","T">>
          [] category = "DRAWINGS" -> <<"D","R","A","W","I","N","G","S">>
          [] category = "SPECIFICATIONS" -> <<"S","P","E","C","I","F","I","C","A","T","I","O","N","S">>
          [] category = "SCHEDULE" -> <<"S","C","H","E","D","U","L","E">>
          [] category = "PRICING" -> <<"P","R","I","C","I","N","G">>
          [] category = "HEALTH_SAFETY" -> <<"H","E","A","L","T","H","_","S","A","F","E","T","Y">>
          [] category = "ENVIRONMENTAL" -> <<"E","N","V","I","R","O","N","M","E","N","T","A","L">>
          [] category = "TENDER_DOCS" -> <<"T","E","N","D","E","R","_","D","O","C","S">>
          [] category = "STRUCTURAL" -> <<"S","T","R","U","C","T","U","R","A","L">>
          [] category = "MEP" -> <<"M","E","P">>
          [] category = "PLANNING" -> <<"P","L","A","N","N","I","N","G">>
          [] category = "SURVEYS" -> <<"S","U","R","V","E","Y","S">>
          [] category = "CORRESPONDENCE" -> <<"C","O","R","R","E","S","P","O","N","D","E","N","C","E">>
          [] category = "OTHER" -> <<"O","T","H","E","R">>]

\* category_keywords of _analyze_question_context (lines 267-280); .get(category, [])
QuestionCategoryKeywords ==
    [category \in EnhancedCategoryNames |->
        CASE category = "CONTRACT" -> <<<<"c","o","n","t","r","a","c","t">>, <<"t","e","r","m","s">>, <<"p","a","y","m","e","n","t">>, <<"l","e","g","a","l">>>>
          [] category = "DRAWINGS" -> <<<<"d","r","a","w","i","n","g">>, <<"p","l","a","n">>, <<"d","e","s","i","g","n">>, <<"l","a","y","o","u","t">>>>
          [] category = "SPECIFICATIONS" -> <<<<"s","p","e","c">>, <<"t","e","c","h","n","i","c","a","l">>, <<"m","a","t","e","r","i","a","l">>, <<"s","t","a","n","d","a","r","d">>>>
          [] category = "SCHEDULE" -> <<<<"s","c","h","e","d","u","l","e">>, <<"t","i","m","e","l","i","n","e">>, <<"d","a","t","e">>, <<"p","r","o","g","r","a","m","m","e">>>>
          [] category = "PRICING" -> <<<<"c","o","s","t">>, <<"p","r","i","c","e">>, <<"b","u","d","g","e","t">>, <<"e","s","t","i","m","a","t","e">>>>
          [] category = "HEALTH_SAFETY" -> <<<<"s","a","f","e","t","y">>, <<"h","e","a","l","t","h">>, <<"r","i","s","k">>, <<"c","d","m">>>>
          [] category = "ENVIRONMENTAL" -> <<<<"e","n","v","i","r","o","n","m","e","n","t","a","l">>, <<"s","u","s","t","a","i","n","a","b","i","l","i","t","y">>, <<"c","a","r","b","o","n">>>>
          [] category = "TENDER_DOCS" -> <<<<"t","e","n","d","e","r">>, <<"p","r","o","p","o","s","a","l">>, <<"s","u","b","m","i","s","s","i","o","n">>>>
          [] category = "STRUCTURAL" -> <<<<"s","t","r","u","c","t","u","r","a","l">>, <<"f","o","u","n","d","a","t","i","o","n">>, <<"c","o","n","c","r","e","t","e">>>>
          [] category = "MEP" -> <<<<"e","l","e","c","t","r","i","c","a","l">>, <<"m","e","c","h","a","n","i","c","a","l">>, <<"s","e","r","v","i","c","e","s">>>>
          [] category = "PLANNING" -> <<<<"p","l","a","n","n","i","n","g">>, <<"p","e","r","m","i","s","s","i","o","n">>, <<"c","o","n","s","e","n","t">>>>
          [] category = "SURVEYS" -> <<<<"s","u","r","v","e","y">>, <<"c","o","n","d","i","t","i","o","n">>, <<"i","n","v","e","s","t","i","g","a","t","i","o","n">>>>
          [] OTHER -> <<>>]

\* The document_data literal of lines 106-119, with the fields the prompt reads;
\* category_order is the order of the keys of documents_by_category
NewDocumentData(docs) ==
    [total_documents |-> Len(docs),
     documents_by_category |-> EmptyDict,
     category_order |-> <<>>,
     document_contents |-> EmptyDict,
     combined_content |-> <<>>,
     processing_summary |-> [successful |-> 0, failed |-> 0, total_size |-> 0]]

\* One pass of the loop body of _get_comprehensive_documents (lines 122-176)
CollectDocument(d, doc) ==
    LET failed == [d EXCEPT !.processing_summary.failed = @ + 1]
        got == DownloadDocumentContent(doc.download_url[1])
    IN  IF doc.download_url = Missing \/ got.raised THEN failed
        ELSE IF got.content = None \/ Strip(got.content[1].text) = <<>> THEN failed
        ELSE LET text == ExtractText(got.content[1], DictGet(doc.mime_type, MimeOctet),
                                     DictGet(doc.name, <<>>))
                 name == doc.name[1]
                 category == EnhancedCategorizeDocument(name, text)
             IN  IF Strip(text) = <<>> THEN d
                 ELSE IF doc.name = Missing THEN failed
                 ELSE [d EXCEPT
                        !.document_contents = DictPut(@, name, text),
                        !.documents_by_category =
                            DictPut(@, category, Append(DictLookup(@, category, <<>>), name)),
                        !.category_order =
                            IF category \in DOMAIN d.documents_by_category THEN @
                            ELSE Append(@, category),
                        !.combined_content =
                            @ \o <<"\n","\n","=","=","="," ">> \o name \o <<" ","(">> \o EnhancedCategoryText[category]
                              \o <<")"," ","=","=","=","\n">> \o text,
                        !.processing_summary.successful = @ + 1,
                        !.processing_summary.total_size = @ + Len(text)]

\* The loop of _get_comprehensive_documents over the listing (lines 121-176)
RECURSIVE CollectDocuments(_, _)
CollectDocuments(d, docs) ==
    IF docs = <<>> THEN d
    ELSE CollectDocuments(CollectDocument(d, Head(docs)), Tail(docs))

\* relevant_categories of _analyze_question_context (lines 264-288)
AnalyzeQuestionContext(question, documents_data) ==
    LET question_lower == Lower(question)
        relevant_categories ==
            SelectSeq(documents_data.category_order,
                      LAMBDA category :
                        AnyTermIn(QuestionCategoryKeywords[category], question_lower))
    IN  [relevant_categories |->
            IF relevant_categories # <<>> THEN relevant_categories
            ELSE documents_data.category_order]

\* The block of one document (lines 365-370)
RelevantDocumentBlock(documents_data, doc_name) ==
    IF doc_name \in DOMAIN documents_data.document_contents
    THEN LET content == documents_data.document_contents[doc_name]
         IN  <<"\n","-","-","-"," ">> \o doc_name \o <<" ","-","-","-","\n">>
             \o (IF Len(content) > DocumentContentLimit
                 THEN Take(content, DocumentContentLimit) \o <<".",".",".","[","t","r","u","n","c","a","t","e","d","]">>
                 ELSE content)
             \o <<"\n">>
    ELSE <<>>

\* The inner loop of lines 364-370
RECURSIVE RelevantDocumentBlocks(_, _)
RelevantDocumentBlocks(documents_data, doc_names) ==
    IF doc_names = <<>> THEN <<>>
    ELSE RelevantDocumentBlock(documents_data, Head(doc_names))
         \o RelevantDocumentBlocks(documents_data, Tail(doc_names))

\* f"\n\n=== {category} DOCUMENTS ===\n" (line 362)
RelevantCategoryHeading(category) ==
    <<"\n","\n","=","=","="," ">> \o EnhancedCategoryText[category] \o <<" ","D","O","C","U","M","E","N","T","S"," ","=","=","=","\n">>

\* The loop of lines 360-370 over the relevant categories
RECURSIVE RelevantCategoryContent(_, _)
RelevantCategoryContent(documents_data, categories) ==
    IF categories = <<>> THEN <<>>
    ELSE LET category == Head(categories)
         IN  (IF category \in DOMAIN documents_data.documents_by_category
              THEN RelevantCategoryHeading(category)
                   \o RelevantDocumentBlocks(documents_data,
                                             documents_data.documents_by_category[category])
              ELSE <<>>)
             \o RelevantCategoryContent(documents_data, Tail(categories))

\* _prepare_relevant_content(documents_data, question_analysis) (lines 352-376)
PrepareRelevantContent(documents_data, question_analysis) ==
    LET relevant_content ==
            RelevantCategoryContent(documents_data, question_analysis.relevant_categories)
    IN  IF Strip(relevant_content) = <<>>
        THEN Take(documents_data.combined_content, CombinedContentLimit)
        ELSE relevant_content

\* {relevant_content[:15000]} of the prompt of _generate_comprehensive_answer (line 318)
EmbeddedContent(documents_data, question_analysis) ==
    Take(PrepareRelevantContent(documents_data, question_analysis), EmbeddedContentLimit)

\* The documents of a folder of n long documents, collected
LongDocumentData(n) == CollectDocuments(NewDocumentData(LongListing(n)), LongListing(n))

NoEmbedded == [given |-> FALSE, documents_data |-> <<>>, question |-> <<>>,
               relevant_categories |-> <<>>, content |-> <<>>]

\* answer_question_comprehensive, steps 2 and 3 up to the prompt (lines 55-57,
\* 299-319): the question is analysed and the document content embedded
Embed ==
    /\ ~embedded.given
    /\ embedded.documents_data # <<>>
    /\ LET question_analysis ==
                AnalyzeQuestionContext(embedded.question, embedded.documents_data)
       IN  embedded' = [embedded EXCEPT
                            !.given = TRUE,
                            !.relevant_categories = question_analysis.relevant_categories,
                            !.content = EmbeddedContent(embedded.documents_data,
                                                        question_analysis)]
    /\ UNCHANGED prepared
    /\ UNCHANGED nonContextVars

-----------------------------------------------------------------------------
(* Specifications *)

\* No question has been asked
InitAnswer ==
    /\ asking = NoAsk
    /\ answered = NoAnswer
    /\ conversations = [p \in Projects |-> NoConversation]

\* No document has been categorized and no completion scored
InitEnhanced ==
    /\ categorized = NoCategorized
    /\ scored = NoScored

\* No prompt context has been assembled
InitContext == prepared = NoPrepared /\ embedded = NoEmbedded

\* No analysis result is at hand
InitMap ==
    /\ analysis_results = EmptyResult
    /\ mapping = NoMapping

InitRfi ==
    /\ rfi_items = [a \in Analyses |-> <<>>]
    /\ rfi_result = NoRfiResult

InitWorkers ==
    /\ now = 0
    /\ cache = [k \in CacheKeys |-> NoEntry]
    /\ pc = [w \in Workers |-> "idle"]
    /\ call = [w \in Workers |-> NoCall]
    /\ documents = [w \in Workers |-> <<>>]
    /\ idx = [w \in Workers |-> 0]
    /\ kb = [w \in Workers |-> None]
    /\ io = [w \in Workers |-> NoIO]
    /\ result = [w \in Workers |-> NoResult]
    /\ laterStarted = [w \in Workers |-> {}]

\* One worker: the single-threaded, request-driven deployment
InitBuild ==
    /\ InitWorkers
    /\ InitRfi
    /\ InitMap
    /\ InitAnswer
    /\ InitEnhanced
    /\ InitContext
    /\ folder \in {[available |-> TRUE, docs |-> <<>>],
                   [available |-> TRUE, docs |-> BulkListing]}

NextBuild ==
    \/ \E p \in Projects, f \in BOOLEAN : BuildStart("w1", p, f)
    \/ BuildList("w1")
    \/ BuildProcessDocument("w1")
    \/ BuildCacheSet("w1")
    \/ Tick
    \/ DocAdded(DocPool, MaxDocs)
    \/ FolderToggled

SpecBuild == InitBuild /\ [][NextBuild]_vars

\* Two workers serving requests for the same project at once
InitConc ==
    /\ InitWorkers
    /\ InitRfi
    /\ InitMap
    /\ InitAnswer
    /\ InitEnhanced
    /\ InitContext
    /\ folder = [available |-> TRUE, docs |-> <<>>]

NextConc ==
    \/ \E w \in Workers, p \in Projects, f \in BOOLEAN : BuildStart(w, p, f)
    \/ \E w \in Workers : BuildList(w)
    \/ \E w \in Workers : BuildProcessDocument(w)
    \/ \E w \in Workers : BuildCacheSet(w)
    \/ DocAdded(ConcPool, MaxConcDocs)

SpecConc == InitConc /\ [][NextConc]_vars

MaxRawItems == 1        \* objects in the JSON array of a completion

\* Requests to the RFI generator
InitRfiSpec ==
    /\ InitWorkers
    /\ folder = [available |-> TRUE, docs |-> <<>>]
    /\ InitRfi
    /\ InitMap
    /\ InitAnswer
    /\ InitEnhanced
    /\ InitContext

\* The model service of a request: not configured, or configured and answering
\* with some completion
\* A completion whose JSON array is long: complete objects, the same two
\* repeated in turn
MaxLongItems == 21      \* objects in the long JSON array
LongCompletion ==
    [kind |-> "json_array",
     items |-> [i \in 1..MaxLongItems |-> IF i % 2 = 1 THEN RawScope ELSE RawProgram]]

ModelOutcomes ==
    {[available |-> FALSE, response |-> [kind |-> "call_failed", items |-> <<>>]]}
    \cup {[available |-> TRUE, response |-> r] : r \in Completions(MaxRawItems)}

NextRfi ==
    \/ \E a \in Analyses, m \in ModelOutcomes, failing \in CreateFailures :
            Generate(a, RequestUser(a), m.available, m.response, failing)
    \/ \E a \in Analyses, m \in ModelOutcomes, failing \in CreateFailures :
            Regenerate(a, RequestUser(a), m.available, m.response, failing)

SpecRfi == InitRfiSpec /\ [][NextRfi]_vars

\* Requests to the RFI generator while the model, when it answers, answers
\* with the long completion
LongOutcomes ==
    {[available |-> FALSE, response |-> [kind |-> "call_failed", items |-> <<>>]],
     [available |-> TRUE, response |-> [kind |-> "no_array", items |-> <<>>]],
     [available |-> TRUE, response |-> LongCompletion]}

NextRfiLong ==
    \/ \E a \in Analyses, m \in LongOutcomes, failing \in CreateFailures :
            Generate(a, RequestUser(a), m.available, m.response, failing)
    \/ \E a \in Analyses, m \in LongOutcomes, failing \in CreateFailures :
            Regenerate(a, RequestUser(a), m.available, m.response, failing)

SpecRfiLong == InitRfiSpec /\ [][NextRfiLong]_vars

MaxEdits == 2           \* keys in which an analysis result departs from its base

\* The mapper applied to an analysis result: the empty object or the full
\* result, with some keys dropped or holding a value of another type
InitMapSpec ==
    /\ InitWorkers
    /\ folder = [available |-> TRUE, docs |-> <<>>]
    /\ InitRfi
    /\ \E base \in {EmptyResult, FullResult}, edits \in SeqsUpTo(Edits, MaxEdits) :
            analysis_results = Edited(base, edits)
    /\ mapping = NoMapping
    /\ InitAnswer
    /\ InitEnhanced
    /\ InitContext

NextMap == \E p \in Projects : Map(p)

SpecMap == InitMapSpec /\ [][NextMap]_vars

\* Questions answered from the knowledge base of a project
InitAnswerSpec ==
    /\ InitWorkers
    /\ folder = [available |-> TRUE, docs |-> <<>>]
    /\ InitRfi
    /\ InitMap
    /\ InitAnswer
    /\ InitEnhanced
    /\ InitContext

NextAnswer ==
    \/ \E p \in Projects, question \in Questions, f \in BOOLEAN : AnswerStart("w1", p, question, f)
    \/ BuildList("w1")
    \/ BuildProcessDocument("w1")
    \/ BuildCacheSet("w1")
    \/ \E reply \in ModelReplies, store_fails \in BOOLEAN : AnswerFinish(reply, store_fails)
    \/ DocAdded(ConcPool, MaxAnswerDocs)

SpecAnswer == InitAnswerSpec /\ [][NextAnswer]_vars

\* Questions put one after another to the responder of a project whose folder
\* holds one document
InitStoreSpec ==
    /\ InitWorkers
    /\ folder = [available |-> TRUE, docs |-> <<DocContract>>]
    /\ InitRfi
    /\ InitMap
    /\ InitAnswer
    /\ InitEnhanced
    /\ InitContext

NextStore ==
    \/ \E p \in Projects, question \in Questions, f \in BOOLEAN :
            AnswerStartRecorded("w1", p, question, f)
    \/ BuildList("w1")
    \/ BuildProcessDocument("w1")
    \/ BuildCacheSet("w1")
    \/ \E reply \in ModelReplies, store_fails \in BOOLEAN : AnswerFinish(reply, store_fails)

SpecStore == InitStoreSpec /\ [][NextStore]_vars

\* The context of one question put to the responder of a project whose
\* knowledge base holds long documents
InitContextSpec ==
    /\ InitWorkers
    /\ folder = [available |-> TRUE, docs |-> <<>>]
    /\ InitRfi
    /\ InitMap
    /\ InitAnswer
    /\ InitEnhanced
    /\ \E n \in 1..MaxContextDocs :
            LET knowledge_base == LongKnowledgeBase(n)
                documents_data == LongDocumentData(n)
            IN  \E question \in ContextQuestions :
                    /\ prepared = [NoPrepared EXCEPT !.knowledge_base = knowledge_base,
                                                     !.question = question]
                    /\ embedded = [NoEmbedded EXCEPT !.documents_data = documents_data,
                                                     !.question = question]

NextContext ==
    \/ Prepare
    \/ Embed

SpecContext == InitContextSpec /\ [][NextContext]_vars

\* The categorizers and the confidence functions applied to documents and
\* completions
InitEnhancedSpec ==
    /\ InitWorkers
    /\ folder = [available |-> TRUE, docs |-> <<>>]
    /\ InitRfi
    /\ InitMap
    /\ InitAnswer
    /\ InitEnhanced
    /\ InitContext

NextEnhanced ==
    \/ \E filename \in CategorizedNames, content \in CategorizedContents :
            Categorize(filename, content)
    \/ \E text \in ScoredCompletions : Score(text)

SpecEnhanced == InitEnhancedSpec /\ [][NextEnhanced]_vars

-----------------------------------------------------------------------------
(* Properties of the knowledge-base builder *)

Summary(w) == kb[w][1].processing_summary
SummaryNext(w) == kb'[w][1].processing_summary

\* The document the loop of worker w is about to process
CurrentDoc(w) == ProcessedSlice(documents[w])[idx[w]]

\* The loop of worker w processes one document in this step
LoopStep(w) == pc[w] = "processing" /\ idx'[w] = idx[w] + 1

\* What the folder store yields for a document
Download(doc) ==
    IF doc.download_url = Missing THEN [raised |-> TRUE, content |-> None]
    ELSE DownloadDocumentContent(doc.download_url[1])
DownloadRaises(doc) == Download(doc).raised
HasText(doc) == ~Download(doc).raised /\ Download(doc).content # None
TextOf(doc) == ExtractText(Download(doc).content[1], DictGet(doc.mime_type, MimeOctet),
                           DictGet(doc.name, NameUnknown))

\* The live cache entry of project p, as an optional value
LiveEntry(c, p, t) ==
    IF c[KnowledgeKey(p)] # NoEntry /\ t < c[KnowledgeKey(p)][1].expires
    THEN Some(c[KnowledgeKey(p)][1].value) ELSE None

\* Worker w starts build(p) without force_refresh in this step
PlainCallStarts(w, p) ==
    /\ pc[w] = "idle"
    /\ \/ pc'[w] = "listing" /\ call'[w] = [project |-> p, force_refresh |-> FALSE]
       \/ /\ pc'[w] = "idle" /\ result'[w] # result[w]
          /\ result'[w].call = [project |-> p, force_refresh |-> FALSE]

\* C1: when the previous build(p) of a worker returned a knowledge base and the
\* project's cache entry is live, a following build(p) without force_refresh
\* returns a knowledge base equal to the previous one and makes no folder
\* listing and no download.
C1_CachedBuildRepeats ==
    [][\A w \in Workers, p \in Projects :
        (/\ result[w].status = "returned"
         /\ result[w].call.project = p
         /\ LiveEntry(cache, p, now) # None
         /\ PlainCallStarts(w, p))
        => (/\ pc'[w] = "idle"
            /\ result'[w].status = "returned"
            /\ result'[w].value = result[w].value
            /\ result'[w].io = [listings |-> 0, downloads |-> 0])]_vars

C1_Witness ==
    /\ result["w1"].status = "returned"
    /\ result["w1"].cached
    /\ result["w1"].call.force_refresh = FALSE
    /\ result["w1"].value[1].processing_summary.processed_successfully = 2
    /\ now > 0

\* C5: a document whose extracted text has at most 50 characters is left out of
\* the knowledge base, adds exactly one to the failure counter and nothing to
\* the success counter.
C5_ShortTextCountsAsFailure ==
    [][\A w \in Workers :
        (LoopStep(w) /\ HasText(CurrentDoc(w)) /\ Len(TextOf(CurrentDoc(w))) <= MinTextLength)
        => (/\ SummaryNext(w).processing_errors = Summary(w).processing_errors + 1
            /\ SummaryNext(w).processed_successfully = Summary(w).processed_successfully
            /\ kb'[w][1].document_contents = kb[w][1].document_contents)]_vars

\* C6: the summary of every knowledge base a build returns satisfies
\* total = succeeded + failed.
C6_TotalIsSucceededPlusFailed ==
    \A w \in Workers :
        (result[w].status = "returned" /\ ~result[w].cached)
        => LET s == result[w].value[1].processing_summary
           IN  s.total_documents = s.processed_successfully + s.processing_errors

\* Names of the documents of a listing that the loop accepts into category c
RECURSIVE AcceptedNames(_, _)
AcceptedNames(docs, c) ==
    IF docs = <<>> THEN <<>>
    ELSE LET d == Head(docs)
             n == DictGet(d.name, NameUnknown)
             keep == /\ HasText(d)
                     /\ Len(Strip(TextOf(d))) > MinTextLength
                     /\ CategorizeDocument(n) = c
         IN  (IF keep THEN <<n>> ELSE <<>>) \o AcceptedNames(Tail(docs), c)

RECURSIVE RaisingCount(_)
RaisingCount(docs) ==
    IF docs = <<>> THEN 0
    ELSE (IF DownloadRaises(Head(docs)) THEN 1 ELSE 0) + RaisingCount(Tail(docs))

EntryNames(entries) == [i \in 1..Len(entries) |-> entries[i].name]

Categories == {CategoryTerms[k].category : k \in 1..Len(CategoryTerms)} \cup {"general"}

\* C7: a build raises only out of the folder listing (unavailable or empty) and
\* then leaves the cache as it was; a document whose download raises adds one
\* to the failure counter, changes nothing else and does not end the loop; and
\* when the loop is over every document of the processed slice has been handled
\* in listing order.
C7_OnlyListingFailureIsFatal ==
    [][\A w \in Workers :
        /\ (result'[w].status = "raised" /\ result'[w] # result[w])
            => (/\ pc[w] = "listing"
                /\ ~folder.available \/ folder.docs = <<>>
                /\ cache' = cache)
        /\ (pc[w] = "listing" /\ folder.available /\ folder.docs # <<>>)
            => result'[w].status # "raised"
        /\ (LoopStep(w) /\ DownloadRaises(CurrentDoc(w)))
            => (/\ kb'[w][1] = [kb[w][1] EXCEPT !.processing_summary.processing_errors = @ + 1]
                /\ pc'[w] = "processing"
                /\ documents'[w] = documents[w])
        /\ (pc[w] = "processing" /\ pc'[w] = "idle")
            => (/\ result'[w].status = "returned"
                /\ LET slice == ProcessedSlice(documents[w])
                       built == result'[w].value[1]
                   IN  /\ built.processing_summary.processing_errors = RaisingCount(slice)
                       /\ \A c \in Categories :
                            EntryNames(DictLookup(built.documents_by_category, c, <<>>))
                                = AcceptedNames(slice, c))]_vars

C7_Witness ==
    /\ pc["w1"] = "processing"
    /\ documents["w1"] = <<DocPlan, DocContract>>
    /\ idx["w1"] = 3
    /\ Summary("w1").processing_errors = 1
    /\ Summary("w1").processed_successfully = 1

\* C9: when two forced builds of a project overlapped and both have returned,
\* the cache holds the knowledge base of the build that started later.
C9_LaterStartedBuildIsCached ==
    \A w \in Workers, v \in Workers :
        (/\ w # v
         /\ v \in laterStarted[w]
         /\ pc[w] = "idle" /\ pc[v] = "idle"
         /\ result[w].status = "returned" /\ ~result[w].cached
         /\ result[v].status = "returned" /\ ~result[v].cached
         /\ result[w].call.force_refresh /\ result[v].call.force_refresh
         /\ result[w].call.project = result[v].call.project)
        => LiveEntry(cache, result[v].call.project, now) = result[v].value

\* C10: a forced build leaves no knowledge base in the cache that was there
\* before it: when it fails the project has no live cache entry, and when it
\* succeeds the live entry is the knowledge base it built.
C10_ForcedRefreshInvalidates ==
    [][\A w \in Workers :
        (pc[w] # "idle" /\ pc'[w] = "idle" /\ call[w].force_refresh)
        => IF result'[w].status = "raised"
           THEN LiveEntry(cache', call[w].project, now') = None
           ELSE LiveEntry(cache', call[w].project, now') = result'[w].value]_vars

\* Every knowledge base the builder holds: under construction, returned to a
\* caller, or cached
KnowledgeBases ==
    {kb[w][1] : w \in {v \in Workers : kb[v] # None}}
    \cup {result[w].value[1] : w \in {v \in Workers : result[v].status = "returned"}}
    \cup {cache[KnowledgeKey(p)][1].value : p \in {q \in Projects : cache[KnowledgeKey(q)] # NoEntry}}

\* C15: the inverted index of every knowledge base holds no token of three
\* characters or fewer, whatever the documents' text.
C15_IndexHoldsNoShortToken ==
    \A k \in KnowledgeBases : \A token \in DOMAIN k.search_index : Len(token) > 3

\* A build has returned a knowledge base that accepted the contract, whose
\* text holds "the" and "days": "days" is indexed
C15_Witness ==
    \E w \in Workers :
        /\ result[w].status = "returned" /\ ~result[w].cached
        /\ NameContract \in DOMAIN result[w].value[1].document_contents
        /\ Contains(result[w].value[1].document_contents[NameContract], <<" ","t","h","e"," ">>)
        /\ <<"d","a","y","s">> \in DOMAIN result[w].value[1].search_index

\* The accepted documents of a knowledge base whose extracted text, lowercased,
\* contains the token
DocumentsContaining(k, token) ==
    {name \in DOMAIN k.document_contents : Contains(Lower(k.document_contents[name]), token)}

\* C16: for every token of the inverted index of a knowledge base, a search for
\* that token alone returns exactly the accepted documents whose extracted
\* text contains the token: none that contains it is missing, none that lacks
\* it is returned.
C16_SearchIsExact ==
    \A k \in KnowledgeBases : \A token \in DOMAIN k.search_index :
        SearchKnowledgeBase(k, <<token>>) = DocumentsContaining(k, token)

-----------------------------------------------------------------------------
(* Properties of the RFI generator *)

\* This step is a call of the operation op on analysis a
RfiStep(op, a) ==
    /\ rfi_result'.turn # rfi_result.turn
    /\ rfi_result'.op = op
    /\ rfi_result'.analysis = a

\* C2 (as claimed): a generate call that directly follows a generate call on the
\* same analysis leaves the analysis' RFI items as they were and reports
\* success = false, whatever the first call produced.
C2_SecondGenerateIsNoOp ==
    [][\A a \in Analyses :
        (rfi_result.op = "generate" /\ rfi_result.analysis = a /\ RfiStep("generate", a))
        => (rfi_items'[a] = rfi_items[a] /\ ~rfi_result'.success)]_vars

\* C2 (amended): a generate call on an analysis that already holds at least one
\* RFI item leaves every RFI item as it was and returns success = false with
\* the number of existing items.
C2_GenerateOnExistingIsNoOp ==
    [][\A a \in Analyses :
        (Len(rfi_items[a]) > 0 /\ RfiStep("generate", a))
        => (/\ rfi_items' = rfi_items
            /\ ~rfi_result'.success
            /\ rfi_result'.rfi_count = Len(rfi_items[a]))]_vars

C2_Witness ==
    /\ rfi_result.op = "generate"
    /\ ~rfi_result.success
    /\ rfi_result.rfi_count = Len(StandardRfis) + 1
    /\ Len(rfi_items[rfi_result.analysis]) = rfi_result.rfi_count
    /\ Len(rfi_items["TA2"]) = 0

\* C3: after a regenerate call on an analysis that held RFI items, the analysis
\* holds either its prior set unchanged or a complete new set (every item the
\* generation step produced, at least one).
C3_RegenerateIsAtomic ==
    [][\A a \in Analyses :
        (Len(rfi_items[a]) > 0 /\ RfiStep("regenerate", a))
        => \/ rfi_items'[a] = rfi_items[a]
           \/ /\ rfi_result'.success
              /\ rfi_result'.generated > 0
              /\ Len(rfi_items'[a]) = rfi_result'.generated]_vars

\* The values category_mapping and priority_mapping can yield
RfiCategories == {CategoryMapping[k] : k \in DOMAIN CategoryMapping}
RfiPriorities == {PriorityMapping[k] : k \in DOMAIN PriorityMapping}

\* The stored row is the normalized form of the completion's object
StoredFrom(row, raw) ==
    /\ raw.question = Some(row.question)
    /\ ValidateRfiData(raw)
    /\ row.category = (IF Upper(raw.category[1]) \in DOMAIN CategoryMapping
                       THEN CategoryMapping[Upper(raw.category[1])] ELSE StrTechnical)
    /\ row.priority = (IF Upper(raw.priority[1]) \in DOMAIN PriorityMapping
                       THEN PriorityMapping[Upper(raw.priority[1])] ELSE StrMedium)

\* What a generate call made in the current state leaves in the table for
\* analysis a, and what it returns
GenerateNow(a, m, failing) ==
    GenerateComprehensiveRfis(rfi_items, a, RequestUser(a), m.available, m.response, failing)

\* C11: every persisted RFI item has a non-empty question, a category of the
\* twelve-value taxonomy and a priority among CRITICAL, HIGH, MEDIUM, LOW; the
\* items a generate call persists from a completion are, in order, objects of
\* the completion that carry category, priority and question, with an
\* unrecognized category stored as TECHNICAL and an unrecognized priority as
\* MEDIUM, so an object missing one of the three is never stored.
C11_PersistedItemsAreNormalized ==
    /\ Cardinality(RfiCategories) = 12
    /\ \A a \in Analyses : \A i \in 1..Len(rfi_items[a]) :
          /\ rfi_items[a][i].question # ""
          /\ rfi_items[a][i].category \in RfiCategories
          /\ rfi_items[a][i].priority \in RfiPriorities
    /\ \A a \in Analyses, m \in ModelOutcomes, failing \in CreateFailures :
          (Len(rfi_items[a]) = 0 /\ m.available /\ m.response.kind = "json_array")
          => LET rows == GenerateNow(a, m, failing).table[a]
             IN  /\ Len(rows) <= Cardinality({k \in 1..Len(m.response.items) :
                                      ValidateRfiData(m.response.items[k])})
                 /\ \A i \in 1..Len(rows) :
                        \E k \in i..Len(m.response.items) :
                            StoredFrom(rows[i], m.response.items[k])

\* A generate call has stored the one object of a completion whose category is
\* not in the taxonomy, as TECHNICAL
C11_Witness ==
    /\ rfi_result.op = "generate" /\ rfi_result.success /\ rfi_result.rfi_count = 1
    /\ Len(rfi_items[rfi_result.analysis]) = 1
    /\ rfi_items[rfi_result.analysis][1].question = RawPricing.question[1]
    /\ rfi_items[rfi_result.analysis][1].category = StrTechnical
    /\ rfi_items[rfi_result.analysis][1].priority = StrLow

\* The model service gives the generator nothing it can parse: it is not
\* configured, its call raises, or its completion holds no JSON array
NothingParsed(m) ==
    \/ ~m.available
    \/ m.response.kind \in {"call_failed", "no_array", "invalid_json"}

\* The standard set of an analysis: the five standard items, and the
\* coordination item exactly when the overview mentions a live environment
StandardSetOf(a) ==
    IF Contains(Lower(AnalysisRecord(a).project_overview), StrLiveEnvironment)
    THEN Append(StandardRfis, CoordinationRfi) ELSE StandardRfis

C13_GenerateIsCapped ==
    [][\A a \in Analyses, m \in LongOutcomes, failing \in CreateFailures :
        (/\ RfiStep("generate", a)
         /\ Len(rfi_items[a]) = 0
         /\ Generate(a, RequestUser(a), m.available, m.response, failing))
        => /\ NothingParsed(m) => Len(rfi_items'[a]) <= 12
           /\ ~NothingParsed(m) => Len(rfi_items'[a]) <= 20]_vars

\* C14: after a generate call no two RFI items of the analysis carry the same
\* question, even when the completion holds the same object more than once.
C14_PersistedItemsAreDeduplicated ==
    [][\A a \in Analyses :
        RfiStep("generate", a)
        => \A i, j \in 1..Len(rfi_items'[a]) :
               rfi_items'[a][i].question = rfi_items'[a][j].question => i = j]_vars

-----------------------------------------------------------------------------
(* Properties of the field mapper *)

\* C4: for any raw analysis result, the empty object included, the mapper
\* returns without raising and the returned record holds a value for every
\* field of the output schema.
C4_MapperIsTotal ==
    mapping.done => (~mapping.raised /\ SchemaFields \subseteq DOMAIN mapping.mapped_data)

-----------------------------------------------------------------------------
(* Properties of the categorizers and of the confidence functions *)

\* The categorizer calls on record
CategorizeCalls ==
    {c[1] : c \in {d \in {categorized.previous, categorized.latest} : d # None}}

\* The categories with a keyword in the lowercased file name, and those with
\* at least two keywords in the lowercased content
NamedCategories(filename) ==
    {k \in 1..Len(EnhancedCategories) : KeywordsIn(k, Lower(filename)) # {}}
ContentCategories(content) ==
    {k \in 1..Len(EnhancedCategories) : Cardinality(KeywordsIn(k, Lower(content))) >= 2}

\* C18: the same (filename, content) always yields the same category; when a
\* keyword occurs in the lowercased file name the category is the first one
\* with such a keyword, so two calls with that file name and different
\* contents agree; otherwise the category is the first one with at least two
\* keywords in the content, and the default when there is none. The builder's
\* categorizer depends on the file name alone and returns its default when no
\* term occurs in it.
C18_FilenameDecidesBeforeContent ==
    \A c \in CategorizeCalls, d \in CategorizeCalls :
        /\ (c.filename = d.filename /\ c.content = d.content)
              => (c.category = d.category /\ c.doc_category = d.doc_category)
        /\ (c.filename = d.filename /\ NamedCategories(c.filename) # {})
              => /\ c.category = d.category
                 /\ c.category = EnhancedCategories[SetMin(NamedCategories(c.filename))].category
        /\ (NamedCategories(c.filename) = {} /\ ContentCategories(c.content) # {})
              => c.category = EnhancedCategories[SetMin(ContentCategories(c.content))].category
        /\ (NamedCategories(c.filename) = {} /\ ContentCategories(c.content) = {})
              => c.category = "OTHER"
        /\ c.filename = d.filename => c.doc_category = d.doc_category
        /\ (\A k \in 1..Len(CategoryTerms) : ~AnyTermIn(CategoryTerms[k].terms, Lower(c.filename)))
              => c.doc_category = "general"

\* Two calls with the file name Contract.pdf, one with a content that alone
\* would make the document a specification, one with a content that matches
\* nothing: both yield CONTRACT
C18_Witness ==
    /\ categorized.previous # None /\ categorized.latest # None
    /\ categorized.previous[1].filename = NameContract
    /\ categorized.latest[1].filename = NameContract
    /\ categorized.previous[1].content = TextProgramme
    /\ categorized.latest[1].content = ContentBudget
    /\ EnhancedCategories[SetMin(ContentCategories(TextProgramme))].category = "SPECIFICATIONS"
    /\ ContentCategories(ContentBudget) = {}
    /\ categorized.previous[1].category = "CONTRACT"
    /\ categorized.latest[1].category = "CONTRACT"

\* The completion holds the word CONFIDENCE, in any case
HasConfidenceMarker(text) == Contains(Upper(text), <<"C","O","N","F","I","D","E","N","C","E">>)

\* C19: for a completion without a CONFIDENCE marker, the confidence each
\* answer path assigns lies between 50 and 95 inclusive.
C19_UnmarkedConfidenceIsHeuristic ==
    (scored.done /\ ~HasConfidenceMarker(scored.text))
    => /\ scored.parsed \in 50..95
       /\ scored.extracted \in 50..95
       /\ scored.calculated \in 50..95

\* A completion without the marker that holds a date, a sum of money and more
\* than 2000 characters has been scored: every bonus of the heuristic applies
C19_Witness ==
    /\ scored.done /\ ~HasConfidenceMarker(scored.text)
    /\ SearchDate(scored.text) /\ SearchValue(scored.text)
    /\ Len(scored.text) > DetailedLength
    /\ scored.calculated = 85
    /\ scored.parsed = DefaultExtractedConfidence

-----------------------------------------------------------------------------
(* Properties of the answer generator *)

\* The documents the index lists for a query term
ListedFor(k, term) == DictLookup(k.search_index, Lower(term), <<>>)
Lists(k, term, name) == \E i \in 1..Len(ListedFor(k, term)) : ListedFor(k, term)[i] = name

\* The number of distinct query terms a document matches
MatchCount(k, terms, name) ==
    Cardinality({Lower(terms[t]) : t \in {u \in 1..Len(terms) : Lists(k, terms[u], name)}})

\* Document a is seen before document b when the terms are looked up in turn
SeenBefore(k, terms, a, b) ==
    LET first(name) == SetMin({t \in 1..Len(terms) : Lists(k, terms[t], name)})
        place(name) == SetMin({i \in 1..Len(ListedFor(k, terms[first(name)])) :
                                  ListedFor(k, terms[first(name)])[i] = name})
    IN  \/ first(a) < first(b)
        \/ first(a) = first(b) /\ place(a) < place(b)

\* The answer call finishes in this step with a knowledge base at hand
SearchStep ==
    /\ asking.active /\ ~asking'.active
    /\ result[asking.worker].status = "returned"

\* C17: the search of an answer call returns the documents matching any of the
\* query terms, ordered by descending number of distinct query terms matched,
\* ties broken by first-seen order.
C17_SearchIsRanked ==
    [][SearchStep =>
        LET k == result[asking.worker].value[1]
            terms == QuestionAnalysisOf[asking.question].key_terms
            found == answered'.response.source_documents
        IN  /\ answered'.response.knowledge_base_stats.relevant_documents_found
                    = Cardinality(SearchKnowledgeBase(k, terms))
            /\ {found[i] : i \in 1..Len(found)} \subseteq SearchKnowledgeBase(k, terms)
            /\ \A i, j \in 1..Len(found) :
                   i < j => \/ MatchCount(k, terms, found[i]) > MatchCount(k, terms, found[j])
                            \/ /\ MatchCount(k, terms, found[i]) = MatchCount(k, terms, found[j])
                               /\ SeenBefore(k, terms, found[i], found[j])]_vars


\* C8: an answer call during which the model was unavailable, the model call
\* failed, or the knowledge-base build failed returns success = false with a
\* reason, never success = true.
C8_FailedAnswerIsReported ==
    (answered.given /\ (answered.model \in {"unavailable", "failed"} \/ answered.build = "raised"))
    => (/\ ~answered.response.success
        /\ "error" \in DOMAIN answered.response)

\* C20: the confidence of every answer returned, and of every answer stored
\* with its question, lies within 0 to 100, also when it is a number the
\* completion states.
C20_ConfidenceIsAPercentage ==
    /\ (answered.given /\ answered.response.success)
          => answered.response.confidence \in 0..100
    /\ \A p \in Projects :
          conversations[p] # NoConversation
          => \A i \in 1..Len(conversations[p][1].questions) :
                 conversations[p][1].questions[i].confidence_score \in 0..100

\* The model answered with a completion that holds no JSON array, or whose
\* text between its first '[' and last ']' is not valid JSON
Unparsed(m) == m.available /\ m.response.kind \in {"no_array", "invalid_json"}

\* The questions of the items an analysis holds in a table
QuestionsOf(table, a) == {table[a][i].question : i \in 1..Len(table[a])}

\* C26: when the completion for RFI generation holds no JSON array, or the
\* text between its first '[' and last ']' is not valid JSON, the RFI items
\* come from a text parse of that completion: what a generate call then stores
\* is not the fixed fallback set.
C26_UnparsedCompletionIsTextParsed ==
    \A a \in Analyses, m \in ModelOutcomes :
        (Len(rfi_items[a]) = 0 /\ Unparsed(m))
        => QuestionsOf(GenerateNow(a, m, {}).table, a)
                # {StandardSetOf(a)[k].question[1] : k \in 1..Len(StandardSetOf(a))}

\* Every knowledge base a build has returned as a success or written to the
\* cache
BuiltKnowledgeBases ==
    {result[w].value[1] : w \in {v \in Workers : result[v].status = "returned"}}
    \cup {cache[KnowledgeKey(p)][1].value :
            p \in {q \in Projects : cache[KnowledgeKey(q)] # NoEntry}}

\* The number of entries across the categories of a knowledge base
CategoryEntries(k) ==
    SumOf([i \in 1..Cardinality(DOMAIN k.documents_by_category) |->
            Len(k.documents_by_category[
                    (CHOOSE order \in Orderings(DOMAIN k.documents_by_category) : TRUE)[i]])])

\* The document names the search index of a knowledge base lists
IndexedNames(k) ==
    UNION {{k.search_index[token][i] : i \in 1..Len(k.search_index[token])} :
            token \in DOMAIN k.search_index}

\* C27: after every successful build the number of entries of
\* document_contents equals processed_successfully and equals the number of
\* entries across documents_by_category, and every document name the search
\* index lists is a key of document_contents; also when the folder listing
\* holds two documents of the same name.
C27_KnowledgeBaseIsConsistent ==
    \A k \in BuiltKnowledgeBases :
        /\ Cardinality(DOMAIN k.document_contents) = k.processing_summary.processed_successfully
        /\ Cardinality(DOMAIN k.document_contents) = CategoryEntries(k)
        /\ IndexedNames(k) \subseteq DOMAIN k.document_contents

\* C29: a knowledge base that a build returns as a success and writes to the
\* cache holds at least one accepted document; a build in which every listed
\* document fails to download, yields no content or is rejected for its short
\* text is not cached and served to later builds.
C29_BuiltKnowledgeBaseHoldsADocument ==
    \A k \in BuiltKnowledgeBases :
        /\ k.processing_summary.processed_successfully >= 1
        /\ DOMAIN k.document_contents # {}

\* A document name without its extension: up to the last full stop
WithoutExtension(name) ==
    LET stops == {i \in 1..Len(name) : name[i] = "."}
    IN  IF stops = {} THEN name
        ELSE SubSeq(name, 1, (CHOOSE i \in stops : \A j \in stops : j <= i) - 1)

\* The categories, drawings aside, of which the name holds a keyword
NamedByKeyword(name) ==
    {CategoryTerms[k].category :
        k \in {j \in 1..Len(CategoryTerms) :
                /\ CategoryTerms[j].category # "drawings"
                /\ AnyTermIn(CategoryTerms[j].terms, Lower(WithoutExtension(name)))}}

\* C30: the extension of a document's name does not decide its category: a
\* document is filed under the category its name has without the extension,
\* and a name holding a contracts, specifications, schedules, commercial or
\* health-and-safety keyword is filed under such a category.
C30_ExtensionDoesNotDecideCategory ==
    \A k \in BuiltKnowledgeBases :
        \A category \in DOMAIN k.documents_by_category :
            \A i \in 1..Len(k.documents_by_category[category]) :
                LET name == k.documents_by_category[category][i].name
                IN  /\ category = CategorizeDocument(WithoutExtension(name))
                    /\ NamedByKeyword(name) # {} => category \in NamedByKeyword(name)

-----------------------------------------------------------------------------
(* Properties of the question analyzer and the prompt context *)

\* The analysis the latest prepared context carries
PreparedAnalysis == prepared.context.question_analysis
PreparedCategories ==
    {PreparedAnalysis.relevant_categories[i] : i \in 1..Len(PreparedAnalysis.relevant_categories)}

\* No keyword of any taxonomy category occurs in the lowercased question
NamesNoKeyword(question) ==
    \A k \in 1..Len(CategoryKeywords) :
        ~AnyTermIn(CategoryKeywords[k].keywords, Lower(question))

TaxonomyCategories == {CategoryKeywords[k].category : k \in 1..Len(CategoryKeywords)}

\* C21: when no taxonomy category has a keyword occurring in the lowercased
\* question, the analysis returns all categories as relevant_categories, so
\* that every category present in the knowledge base remains a candidate when
\* the content is selected.
C21_NoKeywordKeepsEveryCategory ==
    (prepared.given /\ NamesNoKeyword(prepared.question)) =>
        /\ TaxonomyCategories \subseteq PreparedCategories
        /\ DOMAIN prepared.knowledge_base.documents_by_category \subseteq PreparedCategories

\* C22: the question "What is the tender deadline?" is given the question
\* type temporal, although it contains the word "what".
C22_DeadlineQuestionIsTemporal ==
    (prepared.given /\ prepared.question = QuestionDeadline) =>
        PreparedAnalysis.question_type = "temporal"

\* The characters that the sections of a context take when each section shows
\* at most doc_limit documents, each cut to `cut` characters; a section is a
\* heading and the documents of a category, each a name and a content
SectionsAllowance(sections, doc_limit, cut) ==
    SumOf([k \in 1..Len(sections) |->
            Len(sections[k].heading)
            + SumOf([i \in 1..Min(doc_limit, Len(sections[k].docs)) |->
                        Len(CategoryDocumentBlock([name |-> sections[k].docs[i].name,
                                                   content |-> <<>>]))
                        + Min(Len(sections[k].docs[i].content), cut)])])

\* The sections of the relevant categories that the knowledge base of the
\* latest prepared context holds
PreparedSections ==
    LET by_category == prepared.knowledge_base.documents_by_category
        present == SelectSeq(PreparedAnalysis.relevant_categories,
                             LAMBDA category : category \in DOMAIN by_category)
    IN  [k \in 1..Len(present) |->
            [heading |-> CategoryHeading(present[k]), docs |-> by_category[present[k]]]]

\* The characters that the documents the search returned take when each is cut
\* to 3,000 characters
SelectedAllowance ==
    SumOf([k \in 1..Len(prepared.relevant_docs) |->
            Len(RelevantDocumentHeading(prepared.relevant_docs[k]))
            + Min(Len(prepared.knowledge_base.document_contents[prepared.relevant_docs[k]]),
                  RelevantContentLimit)])

\* The sections of the relevant categories of the latest prompt of the
\* question answerer
EmbeddedSections ==
    LET data == embedded.documents_data
        present == SelectSeq(embedded.relevant_categories,
                             LAMBDA category : category \in DOMAIN data.documents_by_category)
    IN  [k \in 1..Len(present) |->
            [heading |-> RelevantCategoryHeading(present[k]),
             docs |-> [i \in 1..Len(data.documents_by_category[present[k]]) |->
                        [name |-> data.documents_by_category[present[k]][i],
                         content |-> data.document_contents[
                                        data.documents_by_category[present[k]][i]]]]]]

\* The context of the responder is within the cap of 25,000 characters and
\* within what three documents per relevant category at 2,000 characters each
\* and the documents the search returned at 3,000 characters each amount to
ResponderContextIsBounded ==
    prepared.given =>
        /\ Len(prepared.context.relevant_content) <= ContextLimit
        /\ Len(prepared.context.relevant_content)
                <= SectionsAllowance(PreparedSections, CategoryDocumentLimit,
                                     CategoryContentLimit)
                   + SelectedAllowance

BuilderCategories == {CategoryTerms[k].category : k \in 1..Len(CategoryTerms)} \cup {"general"}

\* C28: every category the analysis of a question names as relevant is a
\* category the categorizer of the knowledge-base builder can assign to a
\* document, so that it can select entries of documents_by_category.
C28_RelevantCategoriesAreAssignable ==
    prepared.given => PreparedCategories \subseteq BuilderCategories

\* The contexts a call with the arguments of the latest prepared context can
\* assemble, one for each order in which the search can return its documents
PreparableContents ==
    {PrepareAiContext(prepared.knowledge_base, QuestionAnalysisOf[prepared.question],
                      relevant_docs, prepared.question).relevant_content :
        relevant_docs \in Orderings(SearchKnowledgeBase(prepared.knowledge_base,
                                        QuestionAnalysisOf[prepared.question].key_terms))}

\* C25: two answer calls given the same knowledge base, the same question and
\* the same question context assemble the same context text, with the same
\* documents in the same order and the same truncation.
C25_ContextIsDetermined ==
    prepared.given => PreparableContents = {prepared.context.relevant_content}

-----------------------------------------------------------------------------
(* Properties of the conversation store *)

\* An answer call ends in this step
AnswerEnds == asking.active /\ ~asking'.active

\* The answer records of the conversation rows of a project, row by row
AnswerRecords(table, p) == [i \in 1..Len(table[p]) |-> table[p][i].questions]

\* The step adds exactly one answer record to the one conversation of the
\* project and leaves every earlier record as it was
OneRecordAdded(p) ==
    /\ Len(conversations'[p]) = 1
    /\ Len(conversations[p]) <= 1
    /\ LET before == IF conversations[p] = <<>> THEN <<>> ELSE conversations[p][1].questions
           after == conversations'[p][1].questions
       IN  /\ Len(after) = Len(before) + 1
           /\ SubSeq(after, 1, Len(before)) = before
           /\ after[Len(after)].question_text = asking.question
           /\ after[Len(after)].answer_text = answered'.response.answer
    /\ \A q \in Projects \ {p} : conversations'[q] = conversations[q]

====
